---- MODULE Spec2Model ----
(***************************************************************************)
(* Model of the Beads store, its advisory TTL lock, the "land the plane"   *)
(* protocol and the daemons of the job relay of BMAD-METHOD-DVN:           *)
(*   tools/cli/lib/beads/lock.js   acquireLock, releaseLock, readLock      *)
(*   tools/cli/lib/beads/store.js  BeadsStore, writeJsonAtomic             *)
(*   tools/cli/lib/beads/land.js   landThePlane   (src/unnamed/part_001)   *)
(*   tools/cli/commands/beads.js   the CLI ops    (src/unnamed/part_004)   *)
(*   tools/cli/impl/impl-4agent-beads/worker-daemon.js   main              *)
(*   tools/cli/impl/impl-4agent-beads/sm1-daemon.js      main              *)
(*                                                                         *)
(* Every await of the JavaScript code is a point where another call may    *)
(* run, so every file-system call is one step of the model.  A call        *)
(* context runs one operation at a time; contexts 1 and 2 are two          *)
(* operating-system processes, context 3 is a second asynchronous call     *)
(* inside the process of context 1 (it shares its process id).             *)
(***************************************************************************)
EXTENDS Integers, Sequences, FiniteSets, TLC

VARIABLES now, lockFile, dbFile, tmpFiles, backups, pc, op, loc, stack, holds, nops,
          mbox, wk, sm

vars == <<now, lockFile, dbFile, tmpFiles, backups, pc, op, loc, stack, holds, nops,
         mbox, wk, sm>>

\* The mailbox and the relay daemons, which no lock or store operation touches.
relayVars == <<mbox, wk, sm>>

(***************************************************************************)
(* Bounds of the model.                                                    *)
(***************************************************************************)
\* The millisecond clock runs from 0 to MaxTime.
MaxTime == 2
\* Lock TTLs (in clock units) that a caller may pass: 1..MaxTtl.
MaxTtl == 1
\* Operations one call context starts.
MaxOps == 2
\* Messages an inbox holds.
MaxMsgs == 2
\* Poll cycles of one run of the worker daemon.
MaxPolls == 2
\* Work items the backlog offers the dispatcher in one run, when it runs
\* alone and when it runs with the three workers.
MaxDispatch == 2
MaxPipeItems == 1
\* Operations of one run of landThePlane calls, or of calls made one at
\* a time.
MaxRunOps == 2
\* write(db) calls of one run.
MaxWrites == 3
\* Store operations of one run of store operations.
MaxStoreOps == 2
\* maxJournalEntries arguments of compact: 0..MaxJournalArg.
MaxJournalArg == 3

(***************************************************************************)
(* Program constants.                                                      *)
(***************************************************************************)
CURRENT_SCHEMA_VERSION == 1
\* landThePlane compacts with maxJournalEntries: 5000.
LandMaxJournalEntries == 5000

(***************************************************************************)
(* Call contexts and process ids.                                          *)
(***************************************************************************)
Calls == {1, 2, 3}
\* The contexts that are processes of their own (one CLI op per process).
Procs == {1, 2}
\* process.pid of the process a context runs in.
Pid(c) == IF c = 3 THEN 1 ELSE c

(***************************************************************************)
(* Values.  An absent or empty owner ('' / null / undefined) is NoOwner;   *)
(* an ISO timestamp of millisecond t is Iso(t); a missing expiresAt is     *)
(* NoIso and a string that Date.parse cannot read is BadIso.               *)
(***************************************************************************)
NoOwner == << >>
\* An owner string that no acquireLock of the model generates.
ForeignOwner == <<0, 0, 0>>
NoIso == << >>
BadIso == <<0, 0>>
\* new Date(ms).toISOString() for a finite ms.
Iso(t) == <<t>>
\* Number.isNaN(Date.parse(s)) (a missing field is caught before it).
DateParseIsNaN(s) == Len(s) # 1
\* Date.parse(s) when it is a number.
DateParse(s) == s[1]
\* The ttlMs that Number("abc") * 1000 yields.
NaNTtl == -1
TtlInputs == (1..MaxTtl) \cup {NaNTtl}

\* createOwnerId(): `${process.pid}-${nowMs()}-${Math.random()...}`; the
\* random part is the number of the operation in its context (the
\* generator does not repeat).
createOwnerId(c, n) == <<Pid(c), now, n>>

(***************************************************************************)
(* The lock file: a directory entry naming an inode (ino: the context that *)
(* created it, 0 for a file that was there at the start) and its content.  *)
(* form "empty": created, nothing written; "partial": a torn write;        *)
(* "record": JSON that parses to something other than null.                *)
(***************************************************************************)
NullData == [form |-> "null", owner |-> NoOwner, expiresAt |-> NoIso]
EmptyData == [form |-> "empty", owner |-> NoOwner, expiresAt |-> NoIso]
PartialData == [form |-> "partial", owner |-> NoOwner, expiresAt |-> NoIso]
CorruptedData == [form |-> "corrupted", owner |-> NoOwner, expiresAt |-> NoIso]
LockRecord(o, e) == [form |-> "record", owner |-> o, expiresAt |-> e]
NoLockFile == [exists |-> FALSE, ino |-> 0, data |-> NullData]
LockFileOf(i, d) == [exists |-> TRUE, ino |-> i, data |-> d]

\* readLock(lockPath): null when the path does not exist, {corrupted: true}
\* when the content does not parse, else the parsed record.  (pathExists and
\* readFile are one step: a file that vanishes between them reads as
\* corrupted, which every caller treats like null.)
readLock(f) ==
  IF ~f.exists THEN NullData
  ELSE IF f.data.form = "record" THEN f.data
  ELSE CorruptedData

\* !existing || existing.corrupted
IsNullOrCorrupted(ex) == ex.form \in {"null", "corrupted"}

\* The expiry test with <= in place of <.
IsExpiredMutLe(ex, t) ==
  /\ ex.form = "record"
  /\ ex.expiresAt # NoIso
  /\ ~DateParseIsNaN(ex.expiresAt)
  /\ DateParse(ex.expiresAt) <= t

\* existing.expiresAt is there, parses, and existingExpires < nowMs()
IsExpired(ex, t) ==
  /\ ex.form = "record"
  /\ ex.expiresAt # NoIso
  /\ ~DateParseIsNaN(ex.expiresAt)
  /\ DateParse(ex.expiresAt) < t

\* A payload whose expiresAt leaves out ttlMs.
PayloadMutNoTtl(c) == LockRecord(loc[c].owner, Iso(loc[c].exp - loc[c].ttl))

\* The payload acquireLock writes.
Payload(c) == LockRecord(loc[c].owner, Iso(loc[c].exp))

(***************************************************************************)
(* JavaScript values kept in the store.  kind "str": the string text;      *)
(* "json": the value JSON.parse gives for text; "null": null (what get     *)
(* returns for a missing key); "seq": an array of append records (items);  *)
(* "proto": Object.prototype.                                              *)
(***************************************************************************)
JsVal(k, t, i) == [kind |-> k, text |-> t, items |-> i]
Str(t) == JsVal("str", t, << >>)
Json(t) == JsVal("json", t, << >>)
Null == JsVal("null", "", << >>)
ArrayOf(i) == JsVal("seq", "", i)
ObjectPrototype == JsVal("proto", "", << >>)

\* The strings a caller passes as value: one that holds valid JSON, one that
\* does not, and one of white space only.
JsonText == "{\"title\":\"x\"}"
PlainText == "hello"
BlankText == " "
ValueInputs == {Str(JsonText), Str(PlainText), Str(BlankText)}
\* value.trim()
Trim(t) == IF t = BlankText THEN "" ELSE t
\* JSON.parse(trimmed) does not throw
IsJsonText(t) == t = JsonText

\* tryParseJson(value), store.js 43-52
tryParseJson(v) ==
  IF v.kind # "str" THEN v
  ELSE IF Trim(v.text) = "" THEN Str("")
  ELSE IF IsJsonText(Trim(v.text)) THEN Json(Trim(v.text))
  ELSE v

\* The meta argument: a plain object, or something else (an array).
ObjMeta == "{}"
ArrMeta == "[]"
MetaInputs == {ObjMeta, ArrMeta}
\* isPlainObject(meta) ? meta : {}
MetaOf(m) == IF m = ArrMeta THEN ObjMeta ELSE m

\* Namespaces and keys of the model; "__proto__" is the key that names an
\* object's prototype instead of a property of its own.
Namespaces == {"stories", "bad"}
ProtoKey == "__proto__"
Keys == {"1-1", ProtoKey}

\* namespaces is the set of <<namespace, key, value>> of the properties the
\* namespace objects own.
\* Object.prototype.hasOwnProperty.call(ns, key) ? ns[key] : null
GetOwn(nss, n, k) ==
  IF \E e \in nss : e[1] = n /\ e[2] = k
  THEN (CHOOSE e \in nss : e[1] = n /\ e[2] = k)[3]
  ELSE Null
\* ns[key], a property read that follows the prototype chain
GetProp(nss, n, k) ==
  IF \E e \in nss : e[1] = n /\ e[2] = k
  THEN (CHOOSE e \in nss : e[1] = n /\ e[2] = k)[3]
  ELSE IF k = ProtoKey THEN ObjectPrototype ELSE Null
\* ns[key] = v: the assignment to "__proto__" sets or ignores the
\* prototype and makes no property.
SetProp(nss, n, k, v) ==
  IF k = ProtoKey THEN nss
  ELSE {e \in nss : ~(e[1] = n /\ e[2] = k)} \cup {<<n, k, v>>}
\* Object.keys(ns)
OwnKeys(nss, n) == {e[2] : e \in {x \in nss : x[1] = n}}

\* The journal entry set and append push, store.js 123-129 and 151-157
JournalRec(t, o, n, k, m) == [ts |-> t, op |-> o, namespace |-> n, key |-> k, meta |-> MetaOf(m)]
JournalEntry(t, o, k) == JournalRec(t, o, "stories", k, ObjMeta)

(***************************************************************************)
(* The store file.  form "corrupt": bytes that JSON.parse rejects;         *)
(* "nondoc": valid JSON that is no plain object; "doc": a document.        *)
(* A document's nonMaps are the namespaces whose value is no plain object  *)
(* (an array, a scalar, null).                                             *)
(***************************************************************************)
ZeroDoc ==
  [version |-> 0, createdAt |-> 0, updatedAt |-> 0, namespaces |-> {},
   nonMaps |-> {}, journal |-> << >>]
\* createEmptyDb()
createEmptyDb(t) ==
  [version |-> CURRENT_SCHEMA_VERSION, createdAt |-> t, updatedAt |-> t,
   namespaces |-> {}, nonMaps |-> {}, journal |-> << >>]
NoStoreFile == [exists |-> FALSE, form |-> "none", doc |-> ZeroDoc]
StoreFileOf(f, d) == [exists |-> TRUE, form |-> f, doc |-> d]
DocFile(d) == StoreFileOf("doc", d)
CorruptFile == StoreFileOf("corrupt", ZeroDoc)
NonDocFile == StoreFileOf("nondoc", ZeroDoc)

\* JSON.parse(raw) succeeds
Parses(f) == f.exists /\ f.form \in {"doc", "nondoc"}

\* A normalizeDbShape that leaves the namespaces as they are.
NormalizeDocMutKeep(d) == d

\* normalizeDbShape(db) for a plain object, lines 24-40: a namespace whose
\* value is no plain object becomes {}
NormalizeDoc(d) == [d EXCEPT !.nonMaps = {}]

\* normalizeDbShape(JSON.parse(raw)) for a file that parses
normalizeDbShape(f, t) == IF f.form = "doc" THEN NormalizeDoc(f.doc) ELSE createEmptyDb(t)

\* A compact that drops the oldest entry of a journal over the bound.
CompactJournalMutDropOne(j, max) == IF Len(j) > max THEN Tail(j) ELSE j

\* db.journal.slice(-maxJournalEntries) under the length test of compact
CompactJournal(j, max) ==
  IF Len(j) > max
  THEN (IF max = 0 THEN j ELSE SubSeq(j, Len(j) - max + 1, Len(j)))
  ELSE j

\* `.tmp-${basename}-${process.pid}-${Date.now()}`
TmpName(c) == <<Pid(c), now>>
TmpNames == {1, 2} \X (0..MaxTime)


(***************************************************************************)
(* Per-call locals.  owner, exp: the payload of acquireLock; ex: what      *)
(* readLock returned; arg, force: the arguments of releaseLock; res: how   *)
(* the operation ended; cur: the owner a result or error reports; rel:     *)
(* the result of releaseLock; err: the error a try block threw; path:      *)
(* whether the store has a dbPath; db: the document read; wdoc: the        *)
(* document being written; tmp: its temporary file; max: maxJournalEntries.*)
(* ttl: the ttlMs argument; stale: the outcome of acquireLock's staleness  *)
(* test; chk: the clock that test read.                                    *)
(* History kept for the properties: acq (acquireLock returned), touched    *)
(* (acquireLock removed an existing lock file), victim (the owner recorded *)
(* in the file releaseLock removed), gone (releaseLock removed an existing *)
(* file), steps (the steps of land that began, in order).                  *)
(* Store operations: ns, key, val, meta: the arguments; mem: what          *)
(* namespaces[ns][key] reads in memory after the assignment; ret: the      *)
(* value returned; keys: the keys list returns; created: the created flag  *)
(* init returns.  History: pre, prebak (the store file and the backups     *)
(* when the operation began), prev (the operation before).                 *)
(***************************************************************************)
\* What a call keeps of the operation that ran before it (history).
NoPrev ==
  [op |-> "none", res |-> "none", ns |-> "", key |-> "", val |-> Null,
   max |-> 0, ret |-> Null]

InitLoc ==
  [owner |-> NoOwner, exp |-> 0, ex |-> NullData, arg |-> NoOwner, force |-> FALSE,
   res |-> "none", cur |-> NoOwner, rel |-> "none", err |-> "none", path |-> TRUE,
   db |-> ZeroDoc, wdoc |-> ZeroDoc, tmp |-> <<0, 0>>, max |-> 0,
   ttl |-> 0, stale |-> FALSE, chk |-> 0, acq |-> FALSE, touched |-> FALSE,
   victim |-> NoOwner, gone |-> FALSE, steps |-> << >>,
   ns |-> "", key |-> "", val |-> Null, meta |-> "", mem |-> Null, ret |-> Null,
   keys |-> {}, created |-> FALSE,
   pre |-> NoStoreFile, prebak |-> {}, prev |-> NoPrev]

Idle(c) == pc[c] \in {"idle", "crashed"}
AllIdle == \A c \in Calls : Idle(c)

\* One call's step: its program counter, stack and locals change.
Go(c, p, s, l) ==
  /\ pc' = [pc EXCEPT ![c] = p]
  /\ stack' = [stack EXCEPT ![c] = s]
  /\ loc' = [loc EXCEPT ![c] = l]

\* A procedure returns to the label its caller left on the stack.
\* The operation ends: its result is res.
Finish(c, l, r) == Go(c, "done", << >>, [l EXCEPT !.res = r])

Return(c, l) ==
  IF stack[c] = << >>
  THEN Finish(c, l, "ok")
  ELSE Go(c, Head(stack[c]), Tail(stack[c]), l)

lockVars == <<lockFile, holds>>

\* An idle context begins operation o.
Begin(c, o) ==
  /\ pc[c] = "idle"
  /\ nops[c] < MaxOps
  /\ nops' = [nops EXCEPT ![c] = @ + 1]
  /\ op' = [op EXCEPT ![c] = o]
storeVars == <<dbFile, tmpFiles, backups>>

(***************************************************************************)
(* acquireLock (lock.js 39-83)                                             *)
(***************************************************************************)
\* lines 40-48: the owner and the payload; new Date(NaN).toISOString()
\* throws a RangeError before any file is touched.
BeginAcquire(c, ttl, o, s, l) ==
  /\ Begin(c, o)
  /\ holds' = [holds EXCEPT ![c] = FALSE]
  /\ LET own == createOwnerId(c, nops[c] + 1)
         l1 == [l EXCEPT !.owner = own, !.arg = own]
     IN IF ttl = NaNTtl
        THEN Finish(c, l1, "RangeError")
        ELSE Go(c, "acq_open", s, [l1 EXCEPT !.exp = now + ttl, !.ttl = ttl])
  /\ UNCHANGED <<relayVars, now, lockFile, storeVars>>

\* The error acquireLock throws when the lock is held or the retry loses:
\* the EEXIST error of fsp.open itself, which names no owner.
AcquireFails(c, l) == Finish(c, [l EXCEPT !.cur = NoOwner], "EEXIST")

\* line 52 (and 63, 74): fsp.open(lockPath, 'wx')
AcqOpen(c) ==
  /\ pc[c] = "acq_open"
  /\ IF ~lockFile.exists
     THEN /\ lockFile' = LockFileOf(c, EmptyData)
          /\ Go(c, "acq_write", stack[c], loc[c])
     ELSE /\ UNCHANGED lockFile
          /\ Go(c, "acq_read", stack[c], loc[c])
  /\ UNCHANGED <<relayVars, now, holds, nops, op, storeVars>>

\* lines 53-55 (64-66, 75-77): handle.writeFile, handle.close, return.
\* The handle names the inode that open created: when the path has been
\* removed (and maybe created again) since, the write does not show there.
AcqWrite(c) ==
  /\ pc[c] = "acq_write"
  /\ lockFile' = IF lockFile.exists /\ lockFile.ino = c
                 THEN LockFileOf(c, Payload(c)) ELSE lockFile
  /\ holds' = [holds EXCEPT ![c] = TRUE]
  /\ LET l == [loc[c] EXCEPT !.acq = TRUE]
     IN IF op[c] = "lock" THEN Finish(c, l, "ok") ELSE Return(c, l)
  /\ UNCHANGED <<relayVars, now, nops, op, storeVars>>

\* line 59: readLock
AcqRead(c) ==
  /\ pc[c] = "acq_read"
  /\ Go(c, "acq_chk", stack[c], [loc[c] EXCEPT !.ex = readLock(lockFile)])
  /\ UNCHANGED <<relayVars, now, lockVars, nops, op, storeVars>>

\* lines 61, 69-71 and 81: stale (null, corrupted or expired) or held
AcqCheck(c) ==
  /\ pc[c] = "acq_chk"
  /\ LET l == [loc[c] EXCEPT !.chk = now,
                              !.stale = IsNullOrCorrupted(loc[c].ex) \/ IsExpired(loc[c].ex, now)]
     IN IF l.stale
        THEN Go(c, "acq_rm", stack[c], l)
        ELSE AcquireFails(c, l)
  /\ UNCHANGED <<relayVars, now, lockVars, nops, op, storeVars>>

\* lines 62 and 73: fs.remove(lockPath)
AcqRemove(c) ==
  /\ pc[c] = "acq_rm"
  /\ lockFile' = NoLockFile
  /\ Go(c, "acq_open2", stack[c], [loc[c] EXCEPT !.touched = @ \/ lockFile.exists])
  /\ UNCHANGED <<relayVars, now, holds, nops, op, storeVars>>

\* lines 63 and 74: the one retry of the exclusive create; its EEXIST is
\* thrown out of the catch block.
AcqOpen2(c) ==
  /\ pc[c] = "acq_open2"
  /\ IF ~lockFile.exists
     THEN /\ lockFile' = LockFileOf(c, EmptyData)
          /\ Go(c, "acq_write", stack[c], loc[c])
     ELSE /\ UNCHANGED lockFile
          /\ AcquireFails(c, loc[c])
  /\ UNCHANGED <<relayVars, now, holds, nops, op, storeVars>>

\* CLI op 'lock' (part_004 125-134)
StartLock(c, ttl) ==
  BeginAcquire(c, ttl, "lock", << >>, InitLoc)


(***************************************************************************)
(* releaseLock (lock.js 93-103)                                            *)
(***************************************************************************)
\* line 97: !force && existing && existing.owner && owner &&
\*          existing.owner !== owner
OwnerMismatch(ex, owner, force) ==
  /\ ~force
  /\ ex.form # "null"
  /\ ex.owner # NoOwner
  /\ owner # NoOwner
  /\ ex.owner # owner

\* How an operation ends once releaseLock has returned: the CLI prints the
\* result of releaseLock; landThePlane returns, or throws again what its
\* try block threw.
AfterRelease(c, l) ==
  IF op[c] = "land"
  THEN Finish(c, l, IF l.err = "none" THEN "ok" ELSE l.err)
  ELSE Finish(c, l, l.rel)

\* line 94: pathExists
RelExists(c) ==
  /\ pc[c] = "rel_exists"
  /\ IF ~lockFile.exists
     THEN AfterRelease(c, [loc[c] EXCEPT !.rel = "missing"])
     ELSE Go(c, "rel_read", stack[c], loc[c])
  /\ UNCHANGED <<relayVars, now, lockVars, nops, op, storeVars>>

\* lines 96-99: readLock and the owner check
RelRead(c) ==
  /\ pc[c] = "rel_read"
  /\ LET ex == readLock(lockFile)
         l == [loc[c] EXCEPT !.ex = ex]
     IN IF OwnerMismatch(ex, l.arg, l.force)
        THEN AfterRelease(c, [l EXCEPT !.rel = "owner-mismatch", !.cur = ex.owner])
        ELSE Go(c, "rel_rm", stack[c], l)
  /\ UNCHANGED <<relayVars, now, lockVars, nops, op, storeVars>>

\* lines 101-102: fs.remove(lockPath); a lock counts as released when the
\* call named its owner or removed the file that carried it.
RelRemove(c) ==
  /\ pc[c] = "rel_rm"
  /\ lockFile' = NoLockFile
  /\ holds' = [d \in Calls |->
                 holds[d] /\ ~(\/ loc[c].arg = loc[d].owner
                               \/ lockFile.exists /\ lockFile.data.owner = loc[d].owner
                               \/ lockFile.exists /\ lockFile.ino = d)]
  /\ AfterRelease(c, [loc[c] EXCEPT !.rel = "released",
                                    !.gone = lockFile.exists,
                                    !.victim = IF lockFile.exists THEN lockFile.data.owner
                                               ELSE NoOwner])
  /\ UNCHANGED <<relayVars, now, nops, op, storeVars>>

\* A direct call releaseLock({lockPath, owner, force}).  The caller passes
\* nothing, a foreign owner, or the owner of its own last acquisition.
OwnerArgs(c) == {NoOwner, ForeignOwner, loc[c].owner}

StartRelease(c, owner, force) ==
  /\ Begin(c, "release")
  /\ Go(c, "rel_exists", << >>,
        [InitLoc EXCEPT !.owner = loc[c].owner, !.arg = owner, !.force = force])
  /\ UNCHANGED <<relayVars, now, lockVars, storeVars>>

\* CLI op 'unlock' (part_004 136-149): without owner=..., the owner is
\* the one the lock file records.
StartUnlock(c, owner, force) ==
  /\ Begin(c, "unlock")
  /\ Go(c, "unl_read", << >>,
        [InitLoc EXCEPT !.owner = loc[c].owner, !.arg = owner, !.force = force])
  /\ UNCHANGED <<relayVars, now, lockVars, storeVars>>

\* part_004 137-139: current = readLock; owner = arg || current.owner || null
UnlockRead(c) ==
  /\ pc[c] = "unl_read"
  /\ LET current == readLock(lockFile)
         owner == IF loc[c].arg # NoOwner THEN loc[c].arg ELSE current.owner
     IN Go(c, "rel_exists", stack[c], [loc[c] EXCEPT !.arg = owner])
  /\ UNCHANGED <<relayVars, now, lockVars, nops, op, storeVars>>

(***************************************************************************)
(* The store (store.js)                                                    *)
(***************************************************************************)
\* An exception that ends the operation without running a finally clause.
ThrowMutNoFinally(c, l, e) == Finish(c, l, e)

\* An exception in store code: inside landThePlane's try block the finally
\* clause runs releaseLock first; elsewhere the operation ends with it.
Throw(c, l, e) ==
  IF op[c] = "land"
  THEN Go(c, "rel_exists", << >>, [l EXCEPT !.err = e, !.steps = Append(@, "release")])
  ELSE Finish(c, l, e)

\* An init that does not test whether the store has a path.
InitCheckMutNoPathTest(c) ==
  /\ pc[c] = "init_check"
  /\ LET l == [loc[c] EXCEPT !.steps = IF op[c] = "land" /\ stack[c] # << >>
                                             /\ Head(stack[c]) = "rd_exists"
                                       THEN Append(@, "init") ELSE @]
     IN IF ~dbFile.exists
        THEN Go(c, "wja_write", stack[c],
                [l EXCEPT !.wdoc = createEmptyDb(now), !.created = TRUE])
        ELSE IF Parses(dbFile) THEN Return(c, [l EXCEPT !.created = FALSE])
        ELSE Go(c, "init_bak", stack[c], l)
  /\ UNCHANGED <<relayVars, now, lockVars, nops, op, storeVars>>

\* init(), lines 74-81 and 87: the path test, pathExists, readFile and
\* JSON.parse (the store file is only ever replaced, never removed, so the
\* two file calls see the same file).
InitCheck(c) ==
  /\ pc[c] = "init_check"
  /\ LET l == [loc[c] EXCEPT !.steps = IF op[c] = "land" /\ stack[c] # << >>
                                             /\ Head(stack[c]) = "rd_exists"
                                       THEN Append(@, "init") ELSE @]
     IN IF ~l.path THEN Throw(c, l, "ConfigError")
        ELSE IF ~dbFile.exists
        THEN Go(c, "wja_write", stack[c],
                [l EXCEPT !.wdoc = createEmptyDb(now), !.created = TRUE])
        ELSE IF Parses(dbFile) THEN Return(c, [l EXCEPT !.created = FALSE])
        ELSE Go(c, "init_bak", stack[c], l)
  /\ UNCHANGED <<relayVars, now, lockVars, nops, op, storeVars>>

\* An init that makes no backup of the file it is about to replace.
InitBackupMutNoCopy(c) ==
  /\ pc[c] = "init_bak"
  /\ Go(c, "wja_write", stack[c],
        [loc[c] EXCEPT !.wdoc = createEmptyDb(now), !.created = TRUE])
  /\ UNCHANGED <<relayVars, now, lockVars, nops, op, dbFile, tmpFiles, backups>>

\* init(), lines 82-83 and 87: fs.copy(dbPath, `${dbPath}.bak-${Date.now()}`)
InitBackup(c) ==
  /\ pc[c] = "init_bak"
  /\ backups' = {b \in backups : b[1] # now} \cup {<<now, dbFile>>}
  /\ Go(c, "wja_write", stack[c],
        [loc[c] EXCEPT !.wdoc = createEmptyDb(now), !.created = TRUE])
  /\ UNCHANGED <<relayVars, now, lockVars, nops, op, dbFile, tmpFiles>>

\* writeJsonAtomic, lines 55-61: the temporary file is named and written;
\* the write may fail for a reason of the file system (EIO).
WjaWrite(c) ==
  /\ pc[c] = "wja_write"
  /\ \E ok \in BOOLEAN :
       IF ok
       THEN /\ tmpFiles' = [tmpFiles EXCEPT ![TmpName(c)] = DocFile(loc[c].wdoc)]
            /\ Go(c, "wja_move", stack[c], [loc[c] EXCEPT !.tmp = TmpName(c)])
       ELSE /\ UNCHANGED tmpFiles
            /\ Throw(c, loc[c], "EIO")
  /\ UNCHANGED <<relayVars, now, lockVars, nops, op, dbFile, backups>>

\* writeJsonAtomic, line 62: fs.move(tempPath, filePath, {overwrite: true}),
\* taken as one rename; it fails when the temporary file is not there.
WjaMove(c) ==
  /\ pc[c] = "wja_move"
  /\ IF tmpFiles[loc[c].tmp].exists
     THEN /\ dbFile' = tmpFiles[loc[c].tmp]
          /\ tmpFiles' = [tmpFiles EXCEPT ![loc[c].tmp] = NoStoreFile]
          /\ Return(c, loc[c])
     ELSE /\ UNCHANGED <<dbFile, tmpFiles>>
          /\ Throw(c, loc[c], "ENOENT")
  /\ UNCHANGED <<relayVars, now, lockVars, nops, op, backups>>

\* read(), lines 93-96: the path test and pathExists; init() when missing
RdExists(c) ==
  /\ pc[c] = "rd_exists"
  /\ LET l == [loc[c] EXCEPT !.steps = IF op[c] = "land" THEN Append(@, "compact") ELSE @]
     IN IF ~l.path THEN Throw(c, l, "ConfigError")
        ELSE IF ~dbFile.exists
        THEN Go(c, "init_check", <<"rd_file">> \o stack[c], l)
        ELSE Go(c, "rd_file", stack[c], l)
  /\ UNCHANGED <<relayVars, now, lockVars, nops, op, storeVars>>

\* A read that replaces a file it cannot parse by an empty document.
RdFileMutReinit(c) ==
  /\ pc[c] = "rd_file"
  /\ IF ~dbFile.exists THEN Throw(c, loc[c], "ENOENT")
     ELSE IF ~Parses(dbFile)
     THEN Go(c, "wja_write", stack[c], [loc[c] EXCEPT !.wdoc = createEmptyDb(now)])
     ELSE Return(c, [loc[c] EXCEPT !.db = normalizeDbShape(dbFile, now)])
  /\ UNCHANGED <<relayVars, now, lockVars, nops, op, storeVars>>

\* read(), lines 97-99: readFile, JSON.parse, normalizeDbShape
RdFile(c) ==
  /\ pc[c] = "rd_file"
  /\ IF ~dbFile.exists THEN Throw(c, loc[c], "ENOENT")
     ELSE IF ~Parses(dbFile) THEN Throw(c, loc[c], "SyntaxError")
     ELSE Return(c, [loc[c] EXCEPT !.db = normalizeDbShape(dbFile, now)])
  /\ UNCHANGED <<relayVars, now, lockVars, nops, op, storeVars>>

CmpWriteMutNoStamp(c) ==
  /\ pc[c] = "cmp_write"
  /\ Go(c, "wja_write", stack[c],
        [loc[c] EXCEPT !.wdoc = [loc[c].db EXCEPT
                                   !.journal = CompactJournal(@, loc[c].max)]])
  /\ UNCHANGED <<relayVars, now, lockVars, nops, op, storeVars>>

\* compact(), lines 174-181: the journal cut, updatedAt, writeJsonAtomic
CmpWrite(c) ==
  /\ pc[c] = "cmp_write"
  /\ Go(c, "wja_write", stack[c],
        [loc[c] EXCEPT !.wdoc = [loc[c].db EXCEPT
                                   !.journal = CompactJournal(@, loc[c].max),
                                   !.updatedAt = now]])
  /\ UNCHANGED <<relayVars, now, lockVars, nops, op, storeVars>>

\* write(db), lines 103-106, for a well-formed db
StartWrite(c, d) ==
  /\ Begin(c, "write")
  /\ Go(c, "wja_write", << >>, [InitLoc EXCEPT !.wdoc = [d EXCEPT !.updatedAt = now]])
  /\ UNCHANGED <<relayVars, now, lockVars, storeVars>>

(***************************************************************************)
(* The store operations called one after another on one store object.     *)
(***************************************************************************)
\* A store operation begins when the one before it has ended.
BeginStore(c, o) ==
  /\ pc[c] \in {"idle", "done"}
  /\ nops[c] < MaxStoreOps
  /\ nops' = [nops EXCEPT ![c] = @ + 1]
  /\ op' = [op EXCEPT ![c] = o]

PrevOf(c) ==
  [op |-> op[c], res |-> loc[c].res, ns |-> loc[c].ns, key |-> loc[c].key,
   val |-> loc[c].val, max |-> loc[c].max, ret |-> loc[c].ret]

StoreLoc(c, path) ==
  [InitLoc EXCEPT !.path = path, !.pre = dbFile, !.prebak = backups, !.prev = PrevOf(c)]

\* init(), store.js 73-90
StartInit(c, path) ==
  /\ BeginStore(c, "init")
  /\ Go(c, "init_check", << >>, StoreLoc(c, path))
  /\ UNCHANGED <<relayVars, now, lockVars, storeVars>>

\* read(), store.js 92-100
StartRead(c, path) ==
  /\ BeginStore(c, "read")
  /\ Go(c, "rd_exists", << >>, StoreLoc(c, path))
  /\ UNCHANGED <<relayVars, now, lockVars, storeVars>>

\* write(db), store.js 102-108: the path test, normalizeDbShape, updatedAt
StartStoreWrite(c, d, path) ==
  /\ BeginStore(c, "write")
  /\ IF ~path THEN Finish(c, StoreLoc(c, path), "ConfigError")
     ELSE Go(c, "wja_write", << >>,
             [StoreLoc(c, path) EXCEPT !.wdoc = [NormalizeDoc(d) EXCEPT !.updatedAt = now]])
  /\ UNCHANGED <<relayVars, now, lockVars, storeVars>>

\* get(namespace, key), store.js 110-114
StartGet(c, n, k, path) ==
  /\ BeginStore(c, "get")
  /\ Go(c, "rd_exists", <<"get_ret">>, [StoreLoc(c, path) EXCEPT !.ns = n, !.key = k])
  /\ UNCHANGED <<relayVars, now, lockVars, storeVars>>

GetRet(c) ==
  /\ pc[c] = "get_ret"
  /\ Finish(c, [loc[c] EXCEPT !.ret = GetOwn(loc[c].db.namespaces, loc[c].ns, loc[c].key)], "ok")
  /\ UNCHANGED <<relayVars, now, lockVars, nops, op, storeVars>>

\* list(namespace), store.js 163-168, without a prefix
StartList(c, n, path) ==
  /\ BeginStore(c, "list")
  /\ Go(c, "rd_exists", <<"list_ret">>, [StoreLoc(c, path) EXCEPT !.ns = n])
  /\ UNCHANGED <<relayVars, now, lockVars, storeVars>>

ListRet(c) ==
  /\ pc[c] = "list_ret"
  /\ Finish(c, [loc[c] EXCEPT !.keys = OwnKeys(loc[c].db.namespaces, loc[c].ns)], "ok")
  /\ UNCHANGED <<relayVars, now, lockVars, nops, op, storeVars>>

\* set(namespace, key, value, meta), store.js 116-133
StartSet(c, n, k, v, m, path) ==
  /\ BeginStore(c, "set")
  /\ Go(c, "rd_exists", <<"set_apply">>,
        [StoreLoc(c, path) EXCEPT !.ns = n, !.key = k, !.val = v, !.meta = m])
  /\ UNCHANGED <<relayVars, now, lockVars, storeVars>>

SetApplyMutPrepend(c) ==
  /\ pc[c] = "set_apply"
  /\ LET l == loc[c]
         parsed == tryParseJson(l.val)
         db1 == [l.db EXCEPT
                   !.namespaces = SetProp(@, l.ns, l.key, parsed),
                   !.journal = <<JournalRec(now, "set", l.ns, l.key, l.meta)>> \o @]
         mem == IF l.key # ProtoKey \/ parsed.kind = "json" THEN parsed ELSE ObjectPrototype
     IN Go(c, "wja_write", <<"set_ret">>,
           [l EXCEPT !.wdoc = [NormalizeDoc(db1) EXCEPT !.updatedAt = now], !.mem = mem])
  /\ UNCHANGED <<relayVars, now, lockVars, nops, op, storeVars>>

\* lines 118-131 and write(db) 103-106: the assignment, the journal entry,
\* normalizeDbShape and updatedAt
SetApply(c) ==
  /\ pc[c] = "set_apply"
  /\ LET l == loc[c]
         parsed == tryParseJson(l.val)
         db1 == [l.db EXCEPT
                   !.namespaces = SetProp(@, l.ns, l.key, parsed),
                   !.journal = Append(@, JournalRec(now, "set", l.ns, l.key, l.meta))]
         mem == IF l.key # ProtoKey \/ parsed.kind = "json" THEN parsed ELSE ObjectPrototype
     IN Go(c, "wja_write", <<"set_ret">>,
           [l EXCEPT !.wdoc = [NormalizeDoc(db1) EXCEPT !.updatedAt = now], !.mem = mem])
  /\ UNCHANGED <<relayVars, now, lockVars, nops, op, storeVars>>

\* line 132 (and 160): value: written.namespaces[namespace][key]
SetRet(c) ==
  /\ pc[c] = "set_ret"
  /\ Finish(c, [loc[c] EXCEPT !.ret = loc[c].mem], "ok")
  /\ UNCHANGED <<relayVars, now, lockVars, nops, op, storeVars>>

\* append(namespace, key, value, meta), store.js 135-161
StartAppend(c, n, k, v, m, path) ==
  /\ BeginStore(c, "append")
  /\ Go(c, "rd_exists", <<"app_apply">>,
        [StoreLoc(c, path) EXCEPT !.ns = n, !.key = k, !.val = v, !.meta = m])
  /\ UNCHANGED <<relayVars, now, lockVars, storeVars>>

\* The record append pushes, lines 146-150
AppendRec(t, v, m) == [ts |-> t, value |-> tryParseJson(v), meta |-> MetaOf(m)]

\* lines 137-159 and write(db) 103-106
AppApply(c) ==
  /\ pc[c] = "app_apply"
  /\ LET l == loc[c]
         existing == GetProp(l.db.namespaces, l.ns, l.key)
         items == IF existing.kind = "seq" THEN existing.items ELSE << >>
         arr == ArrayOf(Append(items, AppendRec(now, l.val, l.meta)))
         db1 == [l.db EXCEPT
                   !.namespaces = SetProp(@, l.ns, l.key, arr),
                   !.journal = Append(@, JournalRec(now, "append", l.ns, l.key, l.meta))]
     IN Go(c, "wja_write", <<"set_ret">>,
           [l EXCEPT !.wdoc = [NormalizeDoc(db1) EXCEPT !.updatedAt = now], !.mem = arr])
  /\ UNCHANGED <<relayVars, now, lockVars, nops, op, storeVars>>

\* compact({maxJournalEntries}), store.js 170-183
StartCompact(c, max, path) ==
  /\ BeginStore(c, "compact")
  /\ Go(c, "rd_exists", <<"cmp_write">>, [StoreLoc(c, path) EXCEPT !.max = max])
  /\ UNCHANGED <<relayVars, now, lockVars, storeVars>>

(***************************************************************************)
(* landThePlane (part_001 17-28): acquireLock; try { init; compact }       *)
(* finally { releaseLock(owner of the lock, force: false) }                *)
(***************************************************************************)
LandStack == <<"init_check", "rd_exists", "cmp_write", "land_fin">>

\* A landThePlane that compacts to one journal entry.
StartLandMutMaxOne(c, ttl, path) ==
  BeginAcquire(c, ttl, "land", LandStack,
                  [InitLoc EXCEPT !.path = path, !.max = 1,
                                  !.steps = <<"acquire">>])

StartLand(c, ttl, path) ==
  BeginAcquire(c, ttl, "land", LandStack,
                  [InitLoc EXCEPT !.path = path, !.max = LandMaxJournalEntries,
                                  !.steps = <<"acquire">>])

\* part_001 25-27: the finally clause after compact has returned
LandFinally(c) ==
  /\ pc[c] = "land_fin"
  /\ Go(c, "rel_exists", << >>, [loc[c] EXCEPT !.steps = Append(@, "release")])
  /\ UNCHANGED <<relayVars, now, lockVars, nops, op, storeVars>>

(***************************************************************************)
(* The environment: the clock, and a process that dies.                    *)
(***************************************************************************)
Tick ==
  /\ now < MaxTime
  /\ now' = now + 1
  /\ UNCHANGED <<relayVars, lockVars, nops, storeVars, pc, op, loc, stack>>

\* The caller has its result; its process exits (or goes on to other work)
\* and remembers only the owner and expiry of its last acquisition.
Forget(l) == [InitLoc EXCEPT !.owner = l.owner, !.exp = l.exp]

Exit(c) ==
  /\ pc[c] = "done"
  /\ Go(c, "idle", << >>, Forget(loc[c]))
  /\ UNCHANGED <<relayVars, now, lockVars, nops, storeVars, op>>

\* A process killed in the middle of an operation; killed inside
\* handle.writeFile it may leave a torn record.
Crash(c) ==
  /\ pc[c] \notin {"idle", "done", "crashed"}
  /\ Go(c, "crashed", << >>, InitLoc)
  /\ \/ UNCHANGED lockFile
     \/ /\ pc[c] = "acq_write"
        /\ lockFile.exists /\ lockFile.ino = c
        /\ lockFile' = LockFileOf(c, PartialData)
  /\ UNCHANGED <<relayVars, now, holds, nops, storeVars, op>>


(***************************************************************************)
(* The job relay: the mailbox, the worker daemons (worker-daemon.js) and   *)
(* the dispatcher daemon (sm1-daemon.js).                                  *)
(* mbox is the mailbox server: inbox[d], the messages addressed to daemon  *)
(* d, each with the number n the server gave it (its id) and its           *)
(* created_ts; clock, the server's clock, which never goes back; acked,    *)
(* the <<daemon, id>> acknowledged; sent, the messages the daemons sent;   *)
(* inclusive, whether the server's since_ts filter returns a message       *)
(* created at since_ts itself.  wk[w] is the worker of role w: its         *)
(* position pc, the startup call it is at, runner (BMAD_RUNNER_CMD and     *)
(* BMAD_RUNNER_ARGS are set), sinceTs, the fetched msgs, the index i of    *)
(* the message of the for loop, the job's exitCode, polls, the poll       *)
(* cycles that fetched a message, and at, the position at which the        *)
(* process ended.                                                          *)
(* History kept for the properties: acks, the ids whose acknowledgment     *)
(* was attempted; runs, the ids the Runner was invoked for; handled, the   *)
(* ids whose loop body ran to its end; and in a sent message from, the     *)
(* sender, cause, the id of the message it answers, and code, the          *)
(* exitCode of the sender's Runner run.                                    *)
(***************************************************************************)
\* The roles of the pipeline: the dispatcher and the three workers.
Dispatcher == "sm1"
Workers == {"sm2", "dev1", "dev2"}
Daemons == {Dispatcher} \cup Workers
\* BMAD_AGENT_MAIL_NAME of each daemon
AgentOf(d) ==
  CASE d = "sm1" -> "Sm1Agent" [] d = "sm2" -> "ValidatorAgent"
    [] d = "dev1" -> "Dev1Agent" [] d = "dev2" -> "Dev2Agent"

\* BMAD_WORKER_ROLE and BMAD_AGENT_MAIL_NAME of the worker that runs alone
role == "sm2"
agentName == AgentOf(role)

\* A string that holds the fence of a code block, three backticks (written
\* here as three apostrophes).
FenceText == "a'''b"

\* A field of a job is Null (absent: undefined or null) or a string.
Truthy(v) == v # Null /\ v # Str("")
\* a || b
OrElse(a, b) == IF Truthy(a) THEN a ELSE b
\* A Runner exit code as a JSON number.
Num(x) == JsVal("num", IF x = 0 THEN "0" ELSE "1", << >>)

\* The first Job of an item as the dispatcher writes it, sm1-daemon.js
\* 158-173; meta holds sm1_runner_exit_code.
FirstJob(issue, x) ==
  [issue_id |-> Str(issue), step |-> Str("validate-create-story-beads"),
   thread_id |-> Str(issue),
   to_role |-> Str("sm2"), to_agent_name |-> Str(AgentOf("sm2")),
   next_step |-> Str("dev-story-beads"), next_role |-> Str("dev1"),
   next_agent_name |-> Str(AgentOf("dev1")),
   next_next_step |-> Str("code-review-beads"), next_next_role |-> Str("dev2"),
   next_next_agent_name |-> Str(AgentOf("dev2")),
   done_to_role |-> Str("sm1"), done_to_agent_name |-> Str(AgentOf("sm1")),
   meta |-> Num(x)]

BaseJob == [FirstJob("bd-1", 0) EXCEPT !.thread_id = Str("th-1")]

\* The jobs a sender may write: every way of naming the next hop and the
\* completion target, of addressing the job, and of identifying the work
\* item and the thread.
JobInputs ==
  {BaseJob,
   [BaseJob EXCEPT !.next_agent_name = Null],
   [BaseJob EXCEPT !.next_role = Null],
   [BaseJob EXCEPT !.next_step = Null, !.next_role = Null, !.next_agent_name = Null],
   [BaseJob EXCEPT !.next_agent_name = Null, !.done_to_agent_name = Null],
   [BaseJob EXCEPT !.next_step = Null, !.next_agent_name = Null,
                   !.done_to_agent_name = Null],
   [BaseJob EXCEPT !.to_role = Str("dev1")],
   [BaseJob EXCEPT !.to_agent_name = Null],
   [BaseJob EXCEPT !.to_agent_name = Str("Dev1Agent")],
   [BaseJob EXCEPT !.thread_id = Null],
   [BaseJob EXCEPT !.thread_id = Str("")],
   [BaseJob EXCEPT !.thread_id = Null, !.issue_id = Null]}
\* A job whose step holds a fence.
FenceJob == [BaseJob EXCEPT !.step = Str(FenceText)]

\* A message body.  kind "fenced": the text holds a fenced json block; valid:
\* the block is the JSON text of an object, job; esc: that text writes its
\* backticks as \\u0060 escapes.  kind "text": no block; exit is the
\* runner_exit_code the text reports.
FencedBody(j, e) == [kind |-> "fenced", valid |-> TRUE, esc |-> e, job |-> j, exit |-> 0]
GarbageBody == [kind |-> "fenced", valid |-> FALSE, esc |-> FALSE, job |-> BaseJob, exit |-> 0]
TextBody(x) == [kind |-> "text", valid |-> FALSE, esc |-> FALSE, job |-> BaseJob, exit |-> x]

JobFieldValues(j) ==
  {j.issue_id, j.step, j.thread_id, j.to_role, j.to_agent_name, j.next_step,
   j.next_role, j.next_agent_name, j.next_next_step, j.next_next_role,
   j.next_next_agent_name, j.done_to_role, j.done_to_agent_name}

\* The body of a Job message, main 208: the fenced JSON.stringify(nextJob),
\* which writes a backtick as it is.
JobBody(j) == FencedBody(j, FALSE)

\* parseJobFromBody(bodyMd): the set that holds the job, empty when the body
\* has none.  The pattern stops at the first fence after the opening one, so
\* a string of the object that holds a fence cuts the JSON text short.
parseJobFromBody(b) ==
  IF b.kind # "fenced" THEN {}
  ELSE IF ~b.valid THEN {}
  ELSE IF ~b.esc /\ Str(FenceText) \in JobFieldValues(b.job) THEN {}
  ELSE {b.job}

\* Subjects: "BMAD JOB: <step> <issueId>", "BMAD DONE: <step> <issueId>",
\* and any other text.
JobTag == "BMAD JOB:"
DoneTag == "BMAD DONE:"
Subject(t, s, i) == [tag |-> t, step |-> s, issue |-> i]
SubjectOf(t, j) == Subject(t, j.step, j.issue_id)

\* What a sender puts into the worker's inbox.
MessageInputs ==
  {[subject |-> SubjectOf(JobTag, j), body |-> JobBody(j), disp |-> 0] : j \in JobInputs}
  \cup {[subject |-> SubjectOf(JobTag, FenceJob), body |-> FencedBody(FenceJob, TRUE),
         disp |-> 0],
        [subject |-> SubjectOf(JobTag, BaseJob), body |-> GarbageBody, disp |-> 0],
        [subject |-> SubjectOf(JobTag, BaseJob), body |-> TextBody(0), disp |-> 0],
        [subject |-> SubjectOf(DoneTag, BaseJob), body |-> JobBody(BaseJob), disp |-> 0]}

\* No created_ts seen yet: sinceTs = null
NoTs == -1

\* The startup calls of main, in order.
StartupCalls == <<"health_check", "ensure_project", "register_agent", "set_contact_policy">>

\* A worker at its start; r: the runner is configured.
InitWorker(r) ==
  [pc |-> "startup", call |-> 1, runner |-> r, sinceTs |-> NoTs, msgs |-> << >>,
   i |-> 1, exitCode |-> 1, polls |-> 0, at |-> "none", acks |-> << >>,
   runs |-> << >>, handled |-> << >>]
\* A worker that is not started.
NoWorker == [InitWorker(TRUE) EXCEPT !.pc = "off"]

\* An empty mailbox; b: the since_ts filter is inclusive.
InitMailbox(b) ==
  [inbox |-> [d \in Daemons |-> << >>], clock |-> 0, acked |-> {}, sent |-> << >>,
   inclusive |-> b]

\* The lock, the store and their callers, which the relay never touches.
beadsVars == <<lockFile, dbFile, tmpFiles, backups, pc, op, loc, stack, holds, nops>>

\* No store or lock file, and no call in progress.
NoBeads ==
  /\ now = 0
  /\ lockFile = NoLockFile
  /\ dbFile = NoStoreFile
  /\ tmpFiles = [n \in TmpNames |-> NoStoreFile]
  /\ backups = {}
  /\ pc = [c \in Calls |-> "idle"]
  /\ op = [c \in Calls |-> "none"]
  /\ loc = [c \in Calls |-> InitLoc]
  /\ stack = [c \in Calls |-> << >>]
  /\ holds = [c \in Calls |-> FALSE]
  /\ nops = [c \in Calls |-> 0]

\* The message as the server keeps it in the inbox box: numbered and stamped.
Stamped(m, box, t) ==
  [n |-> Len(box) + 1, created_ts |-> t, subject |-> m.subject, body |-> m.body,
   disp |-> m.disp]

\* A sender's send_message to daemon d: the server numbers the message and
\* stamps it with its clock, which has moved on since the last message or
\* has not.
Deliver(d, m) ==
  /\ Len(mbox.inbox[d]) < MaxMsgs
  /\ \E t \in {mbox.clock, mbox.clock + 1} :
       mbox' = [mbox EXCEPT !.clock = t,
                            !.inbox[d] = Append(@, Stamped(m, mbox.inbox[d], t))]
  /\ UNCHANGED <<wk, sm, now, beadsVars>>

\* The inbox of the daemon with agent name a holds fewer than MaxMsgs
\* messages.
HasRoom(a) == \A d \in Daemons : a = Str(AgentOf(d)) => Len(mbox.inbox[d]) < MaxMsgs

\* send_message of a daemon: the message goes to the inbox of the daemon
\* whose agent name is its addressee (to none when no daemon has that name);
\* the Runner run before it has let the server's clock move on.
Post(m) ==
  LET t == mbox.clock + 1 IN
    [mbox EXCEPT !.clock = t,
                 !.sent = Append(@, m),
                 !.inbox = [d \in Daemons |->
                              IF m.to = Str(AgentOf(d))
                              THEN Append(mbox.inbox[d], Stamped(m, mbox.inbox[d], t))
                              ELSE mbox.inbox[d]]]

\* main 100-109: one startup call returns (ok), or throws and main rejects.
WkStartup(w, ok) ==
  /\ wk[w].pc = "startup"
  /\ wk' = [wk EXCEPT ![w] =
              IF ok THEN [@ EXCEPT !.call = @ + 1,
                                   !.pc = IF wk[w].call = Len(StartupCalls)
                                          THEN "poll" ELSE "startup"]
              ELSE [@ EXCEPT !.pc = "dead", !.at = wk[w].pc]]
  /\ UNCHANGED <<mbox, sm, now, beadsVars>>

\* What fetch_inbox returns to daemon d for since_ts.
FetchInbox(d, since) ==
  SelectSeq(mbox.inbox[d],
            LAMBDA m : \/ since = NoTs
                       \/ m.created_ts > since
                       \/ mbox.inclusive /\ m.created_ts = since)

NewestTsMutFirst(ms, since) ==
  IF ms = << >> THEN since
  ELSE IF since = NoTs \/ Head(ms).created_ts > since THEN Head(ms).created_ts ELSE since

RECURSIVE NewestTs(_, _)
\* main 127-135: the newest created_ts of msgs and sinceTs
NewestTs(ms, since) ==
  IF ms = << >> THEN since
  ELSE NewestTs(Tail(ms),
                IF since = NoTs THEN Head(ms).created_ts
                ELSE IF Head(ms).created_ts > since THEN Head(ms).created_ts
                ELSE since)

\* main 118-135, 233: fetch_inbox returns and sinceTs moves on (ok), or it
\* throws and main rejects.  With no message fetched the for loop has
\* nothing to do and the worker sleeps until its next poll.
WkFetch(w, ok) ==
  /\ wk[w].pc = "poll"
  /\ wk[w].polls < MaxPolls
  /\ LET ms == FetchInbox(w, wk[w].sinceTs) IN
       wk' = [wk EXCEPT ![w] =
                IF ok THEN [@ EXCEPT !.msgs = ms, !.sinceTs = NewestTs(ms, wk[w].sinceTs),
                                     !.i = 1,
                                     !.pc = IF ms = << >> THEN "poll" ELSE "next"]
                ELSE [@ EXCEPT !.pc = "dead", !.at = wk[w].pc]]
  /\ UNCHANGED <<mbox, sm, now, beadsVars>>

AcceptsMutAnyAddressee(w, m) ==
  /\ m.subject.tag = JobTag
  /\ parseJobFromBody(m.body) # {}
  /\ \A j \in parseJobFromBody(m.body) : j.to_role = Str(w)

\* main 138-143: the message is a job for worker w.
Accepts(w, m) ==
  /\ m.subject.tag = JobTag
  /\ parseJobFromBody(m.body) # {}
  /\ \A j \in parseJobFromBody(m.body) :
       /\ j.to_role = Str(w)
       /\ ~(Truthy(j.to_agent_name) /\ j.to_agent_name # Str(AgentOf(w)))

\* The message of the for loop and its job.
Msg(w) == wk[w].msgs[wk[w].i]
JobOf(m) == CHOOSE j \in parseJobFromBody(m.body) : TRUE

\* main 137-143, 233: the next message of msgs is skipped or taken; after
\* the last one the worker sleeps and polls again.
WkNext(w) ==
  /\ wk[w].pc = "next"
  /\ \/ /\ wk[w].i > Len(wk[w].msgs)
        /\ wk' = [wk EXCEPT ![w].pc = "poll",
                            ![w].polls = IF wk[w].msgs = << >> THEN @ ELSE @ + 1,
                            ![w].msgs = << >>, ![w].i = 1]
     \/ /\ wk[w].i <= Len(wk[w].msgs)
        /\ ~Accepts(w, Msg(w))
        /\ wk' = [wk EXCEPT ![w].i = @ + 1]
     \/ /\ wk[w].i <= Len(wk[w].msgs)
        /\ Accepts(w, Msg(w))
        /\ wk' = [wk EXCEPT ![w].pc = "ack"]
  /\ UNCHANGED <<mbox, sm, now, beadsVars>>

WkAckMutFatal(w, ok) ==
  /\ wk[w].pc = "ack"
  /\ mbox' = IF ok THEN [mbox EXCEPT !.acked = @ \cup {<<w, Msg(w).n>>}] ELSE mbox
  /\ wk' = IF ok THEN [wk EXCEPT ![w].pc = "run", ![w].acks = Append(@, Msg(w).n)]
           ELSE [wk EXCEPT ![w].pc = "next", ![w].i = @ + 1,
                           ![w].acks = Append(@, Msg(w).n)]
  /\ UNCHANGED <<sm, now, beadsVars>>

\* main 146-152: acknowledge_message returns (ok), or throws and is ignored.
WkAck(w, ok) ==
  /\ wk[w].pc = "ack"
  /\ mbox' = IF ok THEN [mbox EXCEPT !.acked = @ \cup {<<w, Msg(w).n>>}] ELSE mbox
  /\ wk' = [wk EXCEPT ![w].pc = "run", ![w].acks = Append(@, Msg(w).n)]
  /\ UNCHANGED <<sm, now, beadsVars>>

\* runAgentJob 44-63 and main 178-186: the Runner returns its exit code x
\* (ok); when runAgentJob throws, as it does without a runner configuration,
\* exitCode is 1.  When the runner command cannot be started (~ok) the
\* child's error event, which has no listener, ends the process.
WkRun(w, ok, x) ==
  /\ wk[w].pc = "run"
  /\ \/ /\ ok \/ ~wk[w].runner
        /\ wk[w].runner \/ x = 1
        /\ wk' = [wk EXCEPT ![w].exitCode = x, ![w].runs = Append(@, Msg(w).n),
                            ![w].pc = "hop"]
     \/ /\ ~ok /\ wk[w].runner
        /\ wk' = [wk EXCEPT ![w].pc = "dead", ![w].at = "run"]
  /\ UNCHANGED <<mbox, sm, now, beadsVars>>

\* main 190-201; nextJob has no property meta
nextJob(job) ==
  [issue_id |-> job.issue_id,
   step |-> job.next_step,
   thread_id |-> OrElse(job.thread_id, job.issue_id),
   to_role |-> job.next_role,
   to_agent_name |-> job.next_agent_name,
   next_step |-> OrElse(job.next_next_step, Null),
   next_role |-> OrElse(job.next_next_role, Null),
   next_agent_name |-> OrElse(job.next_next_agent_name, Null),
   next_next_step |-> Null, next_next_role |-> Null, next_next_agent_name |-> Null,
   done_to_role |-> OrElse(job.done_to_role, Null),
   done_to_agent_name |-> OrElse(job.done_to_agent_name, Null),
   meta |-> Null]

HasNextHopMutNoAgent(job) == Truthy(job.next_role) /\ Truthy(job.next_step)

\* main 189: the job names its next hop
HasNextHop(job) ==
  Truthy(job.next_role) /\ Truthy(job.next_step) /\ Truthy(job.next_agent_name)

\* main 203-211: the Job message for the next hop
HopMessage(w, job, x, n) ==
  [to |-> job.next_agent_name,
   subject |-> Subject(JobTag, job.next_step, job.issue_id),
   body |-> JobBody(nextJob(job)),
   thread_id |-> OrElse(job.thread_id, job.issue_id),
   from |-> w, cause |-> n, code |-> x, disp |-> Msg(w).disp]

\* main 213-229: the Done notice
DoneMessage(w, job, x, n) ==
  [to |-> job.done_to_agent_name,
   subject |-> Subject(DoneTag, job.step, job.issue_id),
   body |-> TextBody(x),
   thread_id |-> OrElse(job.thread_id, job.issue_id),
   from |-> w, cause |-> n, code |-> x, disp |-> Msg(w).disp]

\* The loop body has run to its end for the message.
Handled(w) ==
  [wk EXCEPT ![w].handled = Append(@, Msg(w).n), ![w].i = @ + 1, ![w].pc = "next"]

\* main 189-230: the hand-off.  send_message returns (ok), or throws and
\* main rejects.
WkHop(w, ok) ==
  /\ wk[w].pc = "hop"
  /\ LET job == JobOf(Msg(w)) IN
       \/ /\ ok /\ HasNextHop(job)
          /\ HasRoom(job.next_agent_name)
          /\ mbox' = Post(HopMessage(w, job, wk[w].exitCode, Msg(w).n))
          /\ wk' = Handled(w)
       \/ /\ ok /\ ~HasNextHop(job)
          /\ Truthy(job.done_to_agent_name)
          /\ HasRoom(job.done_to_agent_name)
          /\ mbox' = Post(DoneMessage(w, job, wk[w].exitCode, Msg(w).n))
          /\ wk' = Handled(w)
       \/ /\ ok /\ ~HasNextHop(job)
          /\ ~Truthy(job.done_to_agent_name)
          /\ wk' = Handled(w)
          /\ UNCHANGED mbox
       \/ /\ ~ok
          /\ HasNextHop(job) \/ Truthy(job.done_to_agent_name)
          /\ wk' = [wk EXCEPT ![w].pc = "dead", ![w].at = "hop"]
          /\ UNCHANGED mbox
  /\ UNCHANGED <<sm, now, beadsVars>>

(***************************************************************************)
(* The dispatcher daemon (sm1-daemon.js).  sm is its state: pc, the        *)
(* startup call it is at, runner, sinceTs, activeIssue (Null: none), the   *)
(* fetched msgs, the index i of the message of the for loop, exitCode and  *)
(* polls as in a worker, at, the position at which main rejected, and     *)
(* backlog, the number of items bd list still has to offer.  ignored: a    *)
(* startup call has thrown and main has gone on.                           *)
(* History kept for the properties: acks, the ids whose acknowledgment     *)
(* was attempted; runs, the items stage one ran for, one per dispatch;     *)
(* got, the dispatches whose Done notice was fetched; cleared, for each    *)
(* time activeIssue was cleared, the item and the message that cleared it. *)
(* disp in a message is the dispatch it descends from (0: none of this     *)
(* run).                                                                   *)
(***************************************************************************)
\* The work items of the backlog; the first is a prefix of the second.
Items == {"bd-1", "bd-10"}
\* text.includes(a), for the texts and items of the model
Contains(text, a) == text = a \/ (a = "bd-1" /\ text = "bd-10")
\* msg.subject.includes(String(activeIssue)), main 210
Includes(sub, a) ==
  \E f \in {sub.step, sub.issue} : f.kind = "str" /\ Contains(f.text, a.text)

\* The dispatcher's startup calls: those of a worker, then set_contact_policy
\* for the three workers, main 95-113.
SmStartupCalls == Len(StartupCalls) + Cardinality(Workers)

InitDispatcher(r) ==
  [pc |-> "startup", call |-> 1, runner |-> r, sinceTs |-> NoTs, activeIssue |-> Null,
   msgs |-> << >>, i |-> 1, exitCode |-> 1, polls |-> 0, at |-> "none",
   backlog |-> MaxDispatch, ignored |-> FALSE,
   acks |-> << >>, runs |-> << >>, got |-> {}, cleared |-> << >>]
NoDispatcher == [InitDispatcher(TRUE) EXCEPT !.pc = "off"]

\* main rejects at the position the dispatcher is at.
SmDies == [sm EXCEPT !.pc = "dead", !.at = sm.pc]

SmStartupMutStrict(ok) ==
  /\ sm.pc = "startup"
  /\ sm' = IF ~ok THEN SmDies
           ELSE [sm EXCEPT !.call = @ + 1,
                           !.pc = IF sm.call = SmStartupCalls THEN "loop" ELSE "startup"]
  /\ UNCHANGED <<mbox, wk, now, beadsVars>>

\* main 95-113: one startup call returns (ok) or throws; main rejects when
\* one of the first four throws and goes on when a later one does.
SmStartup(ok) ==
  /\ sm.pc = "startup"
  /\ sm' = IF ~ok /\ sm.call <= Len(StartupCalls) THEN SmDies
           ELSE [sm EXCEPT !.call = @ + 1,
                           !.ignored = @ \/ ~ok,
                           !.pc = IF sm.call = SmStartupCalls THEN "loop" ELSE "startup"]
  /\ UNCHANGED <<mbox, wk, now, beadsVars>>

\* main 124-139: with no active item the dispatcher lists the backlog and
\* makes its first item x the active one (an empty list leaves it asleep);
\* with an active item it goes on to its inbox.
SmPick(x) ==
  /\ sm.pc = "loop"
  /\ \/ /\ sm.activeIssue = Null
        /\ sm.backlog > 0
        /\ sm' = [sm EXCEPT !.activeIssue = Str(x), !.pc = "run", !.backlog = @ - 1]
     \/ /\ sm.activeIssue # Null
        /\ sm' = [sm EXCEPT !.pc = "fetch"]
  /\ UNCHANGED <<mbox, wk, now, beadsVars>>

\* runAgentJob 33-56 and main 155: the Runner returns its exit code x (ok);
\* runAgentJob throws, as it does without a runner configuration, and main
\* rejects.
SmRun(ok, x) ==
  /\ sm.pc = "run"
  /\ \/ /\ ok /\ sm.runner
        /\ sm' = [sm EXCEPT !.exitCode = x, !.runs = Append(@, sm.activeIssue.text),
                            !.pc = "send"]
     \/ /\ ~ok \/ ~sm.runner
        /\ sm' = SmDies
  /\ UNCHANGED <<mbox, wk, now, beadsVars>>

\* main 175-183: the message of the first Job
FirstMessage(issue, x, k) ==
  [to |-> Str(AgentOf("sm2")),
   subject |-> Subject(JobTag, Str("validate-create-story-beads"), Str(issue)),
   body |-> JobBody(FirstJob(issue, x)),
   thread_id |-> Str(issue),
   from |-> Dispatcher, cause |-> 0, code |-> x, disp |-> k]

\* main 158-183: send_message of the first Job returns (ok), or throws and
\* main rejects.
SmSend(ok) ==
  /\ sm.pc = "send"
  /\ \/ /\ ok
        /\ HasRoom(Str(AgentOf("sm2")))
        /\ mbox' = Post(FirstMessage(sm.activeIssue.text, sm.exitCode, Len(sm.runs)))
        /\ sm' = [sm EXCEPT !.pc = "fetch"]
     \/ /\ ~ok
        /\ sm' = SmDies
        /\ UNCHANGED mbox
  /\ UNCHANGED <<wk, now, beadsVars>>

\* main 188-204, 225: fetch_inbox returns and sinceTs moves on (ok), or it
\* throws and main rejects.  With no message fetched the for loop has
\* nothing to do and the dispatcher sleeps and goes round its loop.
SmFetch(ok) ==
  /\ sm.pc = "fetch"
  /\ sm.polls < MaxPolls
  /\ LET ms == FetchInbox(Dispatcher, sm.sinceTs) IN
       sm' = IF ok
             THEN [sm EXCEPT !.msgs = ms, !.sinceTs = NewestTs(ms, sm.sinceTs),
                             !.i = 1, !.pc = IF ms = << >> THEN "loop" ELSE "scan",
                             !.got = @ \cup {ms[k].disp : k \in
                                              {h \in 1..Len(ms) : ms[h].subject.tag = DoneTag}}]
             ELSE SmDies
  /\ UNCHANGED <<mbox, wk, now, beadsVars>>

\* main 207-210: the message is a Done notice for the active item.
IsDoneFor(m) ==
  /\ m.subject.tag = DoneTag
  /\ sm.activeIssue # Null
  /\ Includes(m.subject, sm.activeIssue)

\* main 206-210, 225: the next message of msgs is skipped or taken; after
\* the last one the dispatcher sleeps and goes round its loop.
SmScan ==
  /\ sm.pc = "scan"
  /\ \/ /\ sm.i > Len(sm.msgs)
        /\ sm' = [sm EXCEPT !.pc = "loop",
                            !.polls = IF sm.msgs = << >> THEN @ ELSE @ + 1,
                            !.msgs = << >>, !.i = 1]
     \/ /\ sm.i <= Len(sm.msgs)
        /\ ~IsDoneFor(sm.msgs[sm.i])
        /\ sm' = [sm EXCEPT !.i = @ + 1]
     \/ /\ sm.i <= Len(sm.msgs)
        /\ IsDoneFor(sm.msgs[sm.i])
        /\ sm' = [sm EXCEPT !.pc = "ack"]
  /\ UNCHANGED <<mbox, wk, now, beadsVars>>

\* main 212-222, 225: acknowledge_message returns (ok), or throws and is
\* ignored; then the active item is cleared and the loop over msgs left.
SmAck(ok) ==
  /\ sm.pc = "ack"
  /\ mbox' = IF ok THEN [mbox EXCEPT !.acked = @ \cup {<<Dispatcher, sm.msgs[sm.i].n>>}]
             ELSE mbox
  /\ sm' = [sm EXCEPT !.pc = "loop", !.activeIssue = Null,
                      !.polls = @ + 1, !.msgs = << >>, !.i = 1,
                      !.acks = Append(@, sm.msgs[sm.i].n),
                      !.cleared = Append(@, [issue |-> sm.activeIssue.text,
                                             k |-> Len(sm.runs),
                                             by |-> sm.msgs[sm.i].n])]
  /\ UNCHANGED <<wk, now, beadsVars>>

\* A Done notice for item x that reaches the dispatcher's inbox while the
\* workers are not modelled: the one the final stage produces for dispatch
\* k of this run, or (k = 0) an older or duplicated one.
DoneInput(x, k) ==
  [subject |-> Subject(DoneTag, Str("code-review-beads"), Str(x)), body |-> TextBody(0),
   disp |-> k]
DeliverDone(x, k) ==
  /\ k \in 0..Len(SelectSeq(mbox.sent, LAMBDA m : m.from = Dispatcher))
  /\ k > 0 => /\ sm.runs[k] = x
              /\ \A h \in 1..Len(mbox.inbox[Dispatcher]) :
                   mbox.inbox[Dispatcher][h].disp # k
  /\ Deliver(Dispatcher, DoneInput(x, k))

(***************************************************************************)
(* Initial states: the files an earlier run may have left.                 *)
(***************************************************************************)
DocA ==
  [version |-> CURRENT_SCHEMA_VERSION, createdAt |-> 0, updatedAt |-> 0,
   namespaces |-> {<<"stories", "1-1", Str("x")>>}, nonMaps |-> {},
   journal |-> <<JournalEntry(0, "set", "1-1")>>]
DocB ==
  [version |-> CURRENT_SCHEMA_VERSION, createdAt |-> 0, updatedAt |-> 0,
   namespaces |-> {<<"stories", "1-1", Str("x")>>, <<"stories", "1-2", Str("y")>>},
   nonMaps |-> {},
   journal |-> <<JournalEntry(0, "set", "1-1"), JournalEntry(0, "set", "1-2")>>]
\* A document in which the namespace "bad" holds an array.
DocBadNs == [DocA EXCEPT !.nonMaps = {"bad"}]
WriteDocs == {DocA, DocB}
\* A journal of three entries.
DocC ==
  [DocB EXCEPT !.journal = Append(@, JournalEntry(0, "append", "1-3"))]

InitLockFiles ==
  {NoLockFile} \cup
  {LockFileOf(0, d) : d \in {EmptyData, PartialData,
                             LockRecord(ForeignOwner, Iso(1)),
                             LockRecord(ForeignOwner, NoIso),
                             LockRecord(ForeignOwner, BadIso),
                             LockRecord(NoOwner, Iso(1))}}
InitStoreFiles == {NoStoreFile, CorruptFile, NonDocFile, DocFile(DocA)}

InitCalls ==
  /\ now = 0
  /\ tmpFiles = [n \in TmpNames |-> NoStoreFile]
  /\ backups = {}
  /\ pc = [c \in Calls |-> "idle"]
  /\ op = [c \in Calls |-> "none"]
  /\ loc = [c \in Calls |-> InitLoc]
  /\ stack = [c \in Calls |-> << >>]
  /\ holds = [c \in Calls |-> FALSE]
  /\ nops = [c \in Calls |-> 0]
  /\ mbox = InitMailbox(FALSE)
  /\ wk = [w \in Workers |-> NoWorker]
  /\ sm = NoDispatcher

Init ==
  /\ InitCalls
  /\ lockFile \in {NoLockFile, LockFileOf(0, LockRecord(ForeignOwner, Iso(1)))}
  /\ dbFile \in {NoStoreFile, DocFile(DocA)}

InitSeq ==
  /\ InitCalls
  /\ lockFile \in InitLockFiles
  /\ dbFile \in InitStoreFiles

InitWrite ==
  /\ InitCalls
  /\ lockFile = NoLockFile
  /\ dbFile \in {NoStoreFile, DocFile(DocA)}

InitStore ==
  /\ InitCalls
  /\ lockFile = NoLockFile
  /\ dbFile \in InitStoreFiles \cup {DocFile(DocC), DocFile(DocBadNs)}

(***************************************************************************)
(* Next-state relations.                                                   *)
(***************************************************************************)
TotalOps == nops[1] + nops[2] + nops[3]

AcquireStep(c) ==
  \/ AcqOpen(c) \/ AcqWrite(c) \/ AcqRead(c) \/ AcqCheck(c) \/ AcqRemove(c) \/ AcqOpen2(c)

ReleaseStep(c) == RelExists(c) \/ RelRead(c) \/ RelRemove(c)

StoreStep(c) ==
  \/ InitCheck(c) \/ WjaWrite(c) \/ WjaMove(c)
  \/ RdExists(c) \/ RdFile(c) \/ CmpWrite(c) \/ LandFinally(c)

\* Two processes acquire the lock and release the lock they acquired,
\* concurrently.
Next ==
  \/ \E c \in Procs, ttl \in 1..MaxTtl : StartLock(c, ttl)
  \/ \E c \in Procs : loc[c].owner # NoOwner /\ StartRelease(c, loc[c].owner, FALSE)
  \/ \E c \in Procs : AcquireStep(c) \/ ReleaseStep(c)
  \/ \E c \in Procs : Exit(c)
  \/ Tick

Spec == Init /\ [][Next]_vars

\* Two processes run landThePlane concurrently.
NextLand ==
  \/ TotalOps < MaxRunOps /\ \E c \in Procs, ttl \in 1..MaxTtl : StartLand(c, ttl, TRUE)
  \/ \E c \in Procs : AcquireStep(c) \/ StoreStep(c) \/ ReleaseStep(c)
  \/ \E c \in Procs : Exit(c)
  \/ Tick

SpecLand == Init /\ [][NextLand]_vars

\* Every operation with every argument, one operation at a time: an
\* operation begins only when no other is in progress.
StartSeq(c) ==
  \/ \E ttl \in TtlInputs : StartLock(c, ttl)
  \/ \E o \in OwnerArgs(c), f \in BOOLEAN : StartRelease(c, o, f)
  \/ \E f \in BOOLEAN : StartUnlock(c, NoOwner, f)
  \/ \E ttl \in TtlInputs, path \in BOOLEAN : StartLand(c, ttl, path)

NextSeq ==
  \/ AllIdle /\ TotalOps < MaxRunOps /\ \E c \in Procs : StartSeq(c)
  \/ \E c \in Procs : AcquireStep(c) \/ UnlockRead(c) \/ ReleaseStep(c)
  \/ \E c \in Procs : StoreStep(c) \/ InitBackup(c)
  \/ \E c \in Procs : Exit(c) \/ Crash(c)
  \/ Tick

SpecSeq == InitSeq /\ [][NextSeq]_vars

\* Concurrent write(db) calls, two of them in one process.
NextWrite ==
  \/ TotalOps < MaxWrites /\ \E c \in Calls, d \in WriteDocs : StartWrite(c, d)
  \/ \E c \in Calls : WjaWrite(c) \/ WjaMove(c)
  \/ \E c \in Calls : Exit(c) \/ Crash(c)
  \/ Tick

SpecWrite == InitWrite /\ [][NextWrite]_vars

\* The store operations with every argument, and landThePlane, called one
\* after another by one process.
StartStore(c) ==
  \/ \E path \in BOOLEAN : StartInit(c, path) \/ StartRead(c, path)
  \/ \E d \in {DocA, DocBadNs} : StartStoreWrite(c, d, TRUE)
  \/ \E n \in Namespaces, k \in Keys : StartGet(c, n, k, TRUE)
  \/ \E n \in Namespaces : StartList(c, n, TRUE)
  \/ \E n \in Namespaces, k \in Keys, v \in ValueInputs : StartSet(c, n, k, v, ObjMeta, TRUE)
  \/ \E n \in Namespaces, k \in Keys, m \in MetaInputs :
        StartAppend(c, n, k, Str(PlainText), m, TRUE)
  \/ \E max \in 0..MaxJournalArg : StartCompact(c, max, TRUE)
  \* the same on a store constructed without a path
  \/ StartStoreWrite(c, DocA, FALSE)
  \/ StartGet(c, "stories", "1-1", FALSE)
  \/ StartList(c, "stories", FALSE)
  \/ StartSet(c, "stories", "1-1", Str(PlainText), ObjMeta, FALSE)
  \/ StartAppend(c, "stories", "1-1", Str(PlainText), ObjMeta, FALSE)
  \/ StartCompact(c, 1, FALSE)
  \/ nops[c] < MaxStoreOps /\ StartLand(c, 1, TRUE)

NextStore ==
  \/ StartStore(1)
  \/ InitCheck(1) \/ InitBackup(1) \/ WjaWrite(1) \/ WjaMove(1)
  \/ RdExists(1) \/ RdFile(1) \/ CmpWrite(1)
  \/ GetRet(1) \/ ListRet(1) \/ SetApply(1) \/ SetRet(1) \/ AppApply(1)
  \/ AcqOpen(1) \/ AcqWrite(1) \/ LandFinally(1)
  \/ RelExists(1) \/ RelRead(1) \/ RelRemove(1)
  \/ op[1] = "land" /\ Exit(1)
  \/ Tick

SpecStore == InitStore /\ [][NextStore]_vars

\* One worker daemon, from its start, and the senders of its inbox.
InitRelay ==
  /\ NoBeads
  /\ \E b \in BOOLEAN : mbox = InitMailbox(b)
  /\ \E r \in BOOLEAN : wk = [w \in Workers |-> IF w = role THEN InitWorker(r) ELSE NoWorker]
  /\ sm = NoDispatcher

NextRelay ==
  \/ \E m \in MessageInputs : Deliver(role, m)
  \/ \E ok \in BOOLEAN : \/ WkStartup(role, ok) \/ WkFetch(role, ok)
                         \/ WkAck(role, ok) \/ WkHop(role, ok)
                         \/ \E x \in {0, 1} : WkRun(role, ok, x)
  \/ WkNext(role)

SpecRelay == InitRelay /\ [][NextRelay]_vars

\* The dispatcher daemon, from its start, and the Done notices of its inbox.
InitDispatch ==
  /\ NoBeads
  /\ \E b \in BOOLEAN : mbox = InitMailbox(b)
  /\ wk = [w \in Workers |-> NoWorker]
  /\ \E r \in BOOLEAN : sm = InitDispatcher(r)

NextDispatch ==
  \/ \E x \in Items, k \in 0..MaxDispatch : DeliverDone(x, k)
  \/ Deliver(Dispatcher, [subject |-> SubjectOf(JobTag, BaseJob), body |-> JobBody(BaseJob),
                          disp |-> 0])
  \/ \E ok \in BOOLEAN : \/ SmStartup(ok) \/ SmSend(ok) \/ SmFetch(ok) \/ SmAck(ok)
                         \/ \E x \in {0, 1} : SmRun(ok, x)
  \/ \E x \in Items : SmPick(x)
  \/ SmScan

SpecDispatch == InitDispatch /\ [][NextDispatch]_vars

\* The pipeline: the dispatcher and the three workers, each past its startup
\* calls, with a mailbox that delivers every message and answers every call
\* but acknowledge_message, which fails every time; no daemon is restarted.
InitPipe ==
  /\ NoBeads
  /\ \E b \in BOOLEAN : mbox = InitMailbox(b)
  /\ wk = [w \in Workers |->
             [InitWorker(TRUE) EXCEPT !.pc = "poll", !.call = Len(StartupCalls) + 1]]
  /\ sm = [InitDispatcher(TRUE) EXCEPT !.pc = "loop", !.call = SmStartupCalls + 1,
                                       !.backlog = MaxPipeItems]

\* A step of the dispatcher, whose backlog lists item bd-1, and a step of
\* worker w; the Runner of each fails with exit code 1.
SmStep ==
  \/ SmPick("bd-1")
  \/ SmRun(TRUE, 1) \/ SmSend(TRUE) \/ SmFetch(TRUE) \/ SmScan \/ SmAck(FALSE)
WkStep(w) ==
  \/ WkFetch(w, TRUE) \/ WkNext(w) \/ WkAck(w, FALSE)
  \/ WkRun(w, TRUE, 1) \/ WkHop(w, TRUE)

NextPipe == SmStep \/ \E w \in Workers : WkStep(w)

\* Each daemon is a process of its own whose loop sleeps a bounded time
\* between two polls: a daemon that can take a step takes one.
SpecPipe ==
  /\ InitPipe /\ [][NextPipe]_vars
  /\ WF_relayVars(SmStep)
  /\ \A w \in Workers : WF_relayVars(WkStep(w))

\* The dispatcher and the validator from their start, each call of theirs
\* returning or throwing; the other two workers are not started.
InitStart ==
  /\ NoBeads
  /\ \E b \in BOOLEAN : mbox = InitMailbox(b)
  /\ wk = [w \in Workers |-> IF w = role THEN InitWorker(TRUE) ELSE NoWorker]
  /\ sm = InitDispatcher(TRUE)

NextStart ==
  \/ \E ok \in BOOLEAN : \/ SmStartup(ok) \/ SmSend(ok) \/ SmFetch(ok) \/ SmRun(ok, 0)
                         \/ WkStartup(role, ok) \/ WkFetch(role, ok)
                         \/ WkAck(role, ok) \/ WkRun(role, ok, 0) \/ WkHop(role, ok)
  \/ SmPick("bd-1") \/ WkNext(role)

SpecStart == InitStart /\ [][NextStart]_vars


(***************************************************************************)
(* Properties.                                                             *)
(***************************************************************************)
Done(c, o) == pc[c] = "done" /\ op[c] = o

\* existing is a record as acquireLock writes it: an owner and an expiresAt
\* that Date.parse reads.
WellFormed(ex) ==
  /\ ex.form = "record"
  /\ ex.owner # NoOwner
  /\ ex.expiresAt # NoIso
  /\ ~DateParseIsNaN(ex.expiresAt)

\* C1: two callers never both hold the lock: no two processes have both
\* returned from acquireLock with success while neither lock has reached
\* its expiresAt nor been released.
C1_MutualExclusion ==
  \A c \in Procs, d \in Procs :
    c # d => ~(/\ holds[c] /\ now < loc[c].exp
               /\ holds[d] /\ now < loc[d].exp)

C3_StaleLockTakeover ==
  \A c \in Procs :
    (/\ Done(c, "lock") /\ loc[c].ex.form = "record"
     /\ loc[c].ex.expiresAt # NoIso /\ ~DateParseIsNaN(loc[c].ex.expiresAt)
     /\ DateParse(loc[c].ex.expiresAt) < loc[c].chk)
      => /\ loc[c].res = "ok"
         /\ loc[c].owner # loc[c].ex.owner
         /\ loc[c].exp = loc[c].owner[2] + loc[c].ttl
         /\ lockFile = LockFileOf(c, LockRecord(loc[c].owner, Iso(loc[c].exp)))

\* A process has taken over the expired lock that the other process
\* acquired.
C3_Witness ==
  \E c \in Procs :
    /\ Done(c, "lock") /\ loc[c].res = "ok"
    /\ WellFormed(loc[c].ex) /\ loc[c].ex.owner[1] \in Procs \ {c}
    /\ DateParse(loc[c].ex.expiresAt) < loc[c].chk
    /\ lockFile.exists /\ lockFile.data.owner = loc[c].owner

\* C4: releaseLock deletes the lock file only if force is true or the
\* recorded owner equals the caller's owner; otherwise it returns "not
\* released" and the lock file still exists.
C4_OwnerCheckedRelease ==
  \A c \in Procs :
    (Done(c, "release") \/ Done(c, "unlock"))
      => /\ loc[c].gone => (loc[c].force \/ loc[c].victim = loc[c].arg)
         /\ loc[c].rel = "owner-mismatch" => lockFile.exists
         /\ loc[c].rel \in {"released", "missing", "owner-mismatch"}

\* C5: a non-forced releaseLock by holder A, whose lock process B has
\* taken over after its TTL, never deletes the lock file that carries B's
\* record.
C5_ReleaseSparesStolenLock ==
  \A a \in Procs, b \in Procs :
    (/\ a # b
     /\ Done(a, "release") /\ ~loc[a].force /\ loc[a].arg = loc[a].owner
     /\ loc[b].ex.form = "record" /\ loc[b].ex.owner = loc[a].owner
     /\ IsExpired(loc[b].ex, loc[b].chk)
     /\ loc[a].gone)
      => loc[a].victim # loc[b].owner

C7_LandReleasesLock ==
  \A c \in Procs :
    (Done(c, "land") /\ loc[c].acq)
      => /\ loc[c].steps[Len(loc[c].steps)] = "release"
         /\ loc[c].rel = "released"
         /\ loc[c].arg = loc[c].owner /\ ~loc[c].force
         /\ ~lockFile.exists

\* A landThePlane has thrown out of its try block and the lock is gone.
C7_Witness ==
  \E c \in Procs :
    /\ Done(c, "land") /\ loc[c].acq
    /\ loc[c].err # "none" /\ loc[c].res = loc[c].err
    /\ ~lockFile.exists

\* C8: the spans from the start of init to the end of compact's write of
\* two concurrent landThePlane calls never overlap.
InLandSpan(c) ==
  /\ op[c] = "land"
  /\ pc[c] \in {"init_check", "init_bak", "wja_write", "wja_move",
                "rd_exists", "rd_file", "cmp_write"}

C8_LandSpansDisjoint ==
  \A c \in Procs, d \in Procs : c # d => ~(InLandSpan(c) /\ InLandSpan(d))

\* C9: the steps of landThePlane come in the order acquire, init, compact,
\* release; the store is not touched before acquireLock has succeeded; and
\* when acquireLock fails, nothing else runs and the call has changed
\* neither the store file nor the lock file.
LandOrders ==
  {<<"acquire">>, <<"acquire", "init">>, <<"acquire", "init", "release">>,
   <<"acquire", "init", "compact">>, <<"acquire", "init", "compact", "release">>}

C9_LandStepOrder ==
  \A c \in Procs :
    op[c] = "land" /\ pc[c] \notin {"idle", "crashed"}
      => /\ loc[c].steps \in LandOrders
         /\ Len(loc[c].steps) > 1 => loc[c].acq
         /\ (pc[c] = "done" /\ ~loc[c].acq)
              => (loc[c].steps = <<"acquire">> /\ ~loc[c].touched)

\* C10: the store file always holds a complete document (or is yet to be
\* created), no write fails for want of its temporary file, and the
\* temporary file a write is about to move holds the document that write
\* wrote.
C10_AtomicWrite ==
  /\ dbFile.exists => dbFile.form = "doc"
  /\ \A c \in Calls :
       /\ Done(c, "write") => loc[c].res # "ENOENT"
       /\ (op[c] = "write" /\ pc[c] = "wja_move")
            => tmpFiles[loc[c].tmp] = DocFile(loc[c].wdoc)

\* The last n entries of journal j, in their order.
LastN(j, n) == SubSeq(j, Len(j) - n + 1, Len(j))
Min(a, b) == IF a < b THEN a ELSE b

\* The store operation o of the process has returned.
Returned(o) == Done(1, o) /\ loc[1].res = "ok"

\* C11: a compact that runs right after a compact with the same
\* maxJournalEntries leaves the namespaces and the journal as the first
\* run persisted them.
C11_IdempotentCompaction ==
  (/\ Returned("compact")
   /\ loc[1].prev.op = "compact" /\ loc[1].prev.res = "ok"
   /\ loc[1].prev.max = loc[1].max)
    => /\ dbFile.form = "doc" /\ loc[1].pre.form = "doc"
       /\ dbFile.doc.namespaces = loc[1].pre.doc.namespaces
       /\ dbFile.doc.nonMaps = loc[1].pre.doc.nonMaps
       /\ dbFile.doc.journal = loc[1].pre.doc.journal

\* Two compacts with maxJournalEntries 1 have run on a journal of three
\* entries: the journal is the newest entry.
C11_Witness ==
  /\ Returned("compact")
  /\ loc[1].prev.op = "compact" /\ loc[1].prev.res = "ok"
  /\ loc[1].prev.max = 1 /\ loc[1].max = 1
  /\ dbFile.form = "doc"
  /\ dbFile.doc.journal = <<JournalEntry(0, "append", "1-3")>>

\* C12: after compact({maxJournalEntries: N}) the persisted journal has at
\* most N entries: the min(N, previous length) newest of the journal that
\* was there, in their order.
C12_JournalBound ==
  Returned("compact")
    => /\ dbFile.form = "doc"
       /\ Len(dbFile.doc.journal) <= loc[1].max
       /\ dbFile.doc.journal =
            LastN(loc[1].db.journal, Min(loc[1].max, Len(loc[1].db.journal)))

\* A valid empty document: version 1, no namespaces, no journal entries.
IsEmptyDocFile(f) ==
  /\ f.exists /\ f.form = "doc"
  /\ f.doc.version = CURRENT_SCHEMA_VERSION
  /\ f.doc.namespaces = {} /\ f.doc.nonMaps = {} /\ f.doc.journal = << >>

\* C13: init() on a backing file that holds invalid JSON leaves a backup of
\* the original bytes, replaces the file by a valid empty document and
\* reports created = true; on a backing file that holds valid JSON it
\* leaves the file and the backups as they are and reports created = false.
C13_InitCorruptionRecovery ==
  /\ (Done(1, "init") /\ loc[1].path) => loc[1].res \in {"ok", "EIO"}
  /\ (Returned("init") /\ loc[1].pre.exists /\ ~Parses(loc[1].pre))
       => /\ \E b \in backups : b[2] = loc[1].pre
          /\ IsEmptyDocFile(dbFile)
          /\ loc[1].created
  /\ (Returned("init") /\ loc[1].pre.exists /\ Parses(loc[1].pre))
       => /\ dbFile = loc[1].pre
          /\ backups = loc[1].prebak
          /\ ~loc[1].created

\* init() has returned from a backing file of invalid JSON.
C13_Witness ==
  /\ Returned("init") /\ loc[1].pre = CorruptFile
  /\ loc[1].created /\ backups # {}

\* The operations built on read().
ReadOps == {"read", "get", "set", "append", "list", "compact"}

\* C14: read() and the operations built on it, called on a backing file
\* that exists and does not parse, raise no error of the parse: the file is
\* backed up and the operation goes on with a well-formed document.
C14_ReadSelfHealing ==
  (/\ pc[1] = "done" /\ op[1] \in ReadOps /\ loc[1].path
   /\ loc[1].pre.exists /\ ~Parses(loc[1].pre))
    => /\ loc[1].res # "SyntaxError"
       /\ loc[1].res = "ok" => (\E b \in backups : b[2] = loc[1].pre)

\* C15: in init, read, get, set, append, list, compact and land, a step
\* that replaces a backing file whose content does not parse is taken only
\* when a backup holding that content exists.
C15_NoSilentLoss ==
  [][(/\ dbFile.exists /\ ~Parses(dbFile) /\ dbFile' # dbFile
      /\ op[1] \in ReadOps \cup {"init", "land"})
       => (\E b \in backups : b[2] = dbFile)]_vars

\* landThePlane has replaced a backing file that did not parse, and the
\* backup holds it.
C15_Witness ==
  /\ op[1] = "land" /\ pc[1] \in {"rd_exists", "rd_file", "cmp_write"}
  /\ dbFile.form = "doc"
  /\ \E b \in backups : b[2] = CorruptFile

\* What the round trip is to give for value v: the decoded value when v is
\* a string that holds valid JSON, v itself otherwise.
Decoded(v) == IF v.kind = "str" /\ IsJsonText(v.text) THEN Json(v.text) ELSE v

\* C16: a get(ns, key) that runs right after set(ns, key, v) returns the
\* decoded form of v, or v itself when v holds no valid JSON, and that is
\* the value set returned.
C16_SetGetRoundTrip ==
  (/\ Returned("get")
   /\ loc[1].prev.op = "set" /\ loc[1].prev.res = "ok"
   /\ loc[1].prev.ns = loc[1].ns /\ loc[1].prev.key = loc[1].key)
    => /\ loc[1].ret = Decoded(loc[1].prev.val)
       /\ loc[1].ret = loc[1].prev.ret

\* The records of the sequence v, none when v is no sequence.
ItemsOf(v) == IF v.kind = "seq" THEN v.items ELSE << >>

\* C17: an append(ns, key, v) that has returned has extended the sequence
\* stored at the key by one record, after those that were there, and the
\* timestamps of the records that sequential appends left at a key
\* increase strictly in call order (pairwise distinct, non-decreasing).
C17_AppendOrdering ==
  Returned("append")
    => LET after == GetOwn(dbFile.doc.namespaces, loc[1].ns, loc[1].key)
           old == ItemsOf(GetOwn(loc[1].db.namespaces, loc[1].ns, loc[1].key))
       IN /\ after.kind = "seq"
          /\ Len(after.items) = Len(old) + 1
          /\ SubSeq(after.items, 1, Len(old)) = old
          /\ after.items[Len(after.items)].value = tryParseJson(loc[1].val)
          /\ \A i \in 1..Len(after.items), j \in 1..Len(after.items) :
               i < j => after.items[i].ts < after.items[j].ts

\* The operations of the store object.
StoreOps == ReadOps \cup {"init", "write"}

\* C18: on a store constructed without a path, init, read, write, get,
\* set, append, list and compact fail with the error of the missing path,
\* and no file has been created or changed.
C18_MissingPathFails ==
  (pc[1] = "done" /\ op[1] \in StoreOps /\ ~loc[1].path)
    => /\ loc[1].res = "ConfigError"
       /\ dbFile = loc[1].pre
       /\ backups = loc[1].prebak
       /\ \A n \in TmpNames : ~tmpFiles[n].exists

\* init() has failed on a store without a path whose backing file is
\* missing.
C18_Witness ==
  /\ Done(1, "init") /\ ~loc[1].path
  /\ loc[1].res = "ConfigError" /\ ~dbFile.exists

\* C19: the document read() returns and the document write, set, append
\* and compact persist hold no namespace whose value is not a map, and a
\* backing file that holds such a namespace makes no operation fail.
C19_NamespaceShape ==
  /\ Returned("read") => loc[1].db.nonMaps = {}
  /\ (pc[1] = "done" /\ loc[1].res = "ok" /\ op[1] \in {"write", "set", "append", "compact"})
       => (dbFile.form = "doc" /\ dbFile.doc.nonMaps = {})
  /\ (pc[1] = "done" /\ op[1] \in StoreOps /\ loc[1].path
      /\ loc[1].pre = DocFile(DocBadNs))
       => loc[1].res \in {"ok", "EIO"}

\* read() has returned from a backing file in which a namespace holds an
\* array.
C19_Witness ==
  /\ Returned("read")
  /\ dbFile = DocFile(DocBadNs)
  /\ loc[1].db.namespaces = DocBadNs.namespaces /\ loc[1].db.nonMaps = {}

\* The sent messages that answer the inbox message numbered n.
Replies(n) ==
  {k \in 1..Len(mbox.sent) : mbox.sent[k].from = role /\ mbox.sent[k].cause = n}
\* The job names next_role and next_step.
NamesNextStage(job) == Truthy(job.next_role) /\ Truthy(job.next_step)

\* C20 (Relay hop construction): whenever the worker has handled an inbox
\* message that is a Job addressed to it and that names next_role and
\* next_step, it has sent exactly one message in answer to it, and the job
\* decoded from that message has to_role equal to the inbound next_role and
\* thread_id equal to the inbound thread_id, or to the inbound issue_id when
\* the inbound thread_id is absent (null, undefined or the empty string).
C20_RelayHopConstruction ==
  \A h \in 1..Len(wk[role].handled) :
    LET m == mbox.inbox[role][wk[role].handled[h]]
        job == JobOf(m)
    IN  NamesNextStage(job) =>
          /\ Cardinality(Replies(m.n)) = 1
          /\ \A k \in Replies(m.n) :
                /\ parseJobFromBody(mbox.sent[k].body) # {}
                /\ \A out \in parseJobFromBody(mbox.sent[k].body) :
                      /\ out.to_role = job.next_role
                      /\ out.thread_id =
                           IF Truthy(job.thread_id) THEN job.thread_id
                           ELSE job.issue_id

\* The inbox messages of worker w that it acknowledged, ran the Runner for or
\* answered with a message.
Touched(w) ==
  {wk[w].acks[k] : k \in 1..Len(wk[w].acks)}
  \cup {wk[w].runs[k] : k \in 1..Len(wk[w].runs)}
  \cup {mbox.sent[k].cause : k \in {h \in 1..Len(mbox.sent) : mbox.sent[h].from = w}}
\* The body holds a fenced block that is the JSON text of a job descriptor.
HoldsDescriptor(b) == b.kind = "fenced" /\ b.valid
\* The message is no job for worker w: its subject does not mark a job, its
\* body holds no job descriptor, or the descriptor names another role or
\* another agent.
NotForWorker(w, m) ==
  \/ m.subject.tag # JobTag
  \/ ~HoldsDescriptor(m.body)
  \/ m.body.job.to_role # Str(w)
  \/ /\ m.body.job.to_agent_name \notin {Null, Str("")}
     /\ m.body.job.to_agent_name # Str(AgentOf(w))

\* C21 (Worker addressing filter): the worker never acknowledges, never runs
\* the Runner for and never sends a message in answer to an inbox message
\* whose subject does not mark a job, whose body holds no decodable job
\* descriptor, whose to_role is not the worker's role, or whose to_agent_name
\* is present and is not the worker's agent name.
C21_WorkerAddressingFilter ==
  \A n \in Touched(role) : ~NotForWorker(role, mbox.inbox[role][n])

\* The worker has gone through a fetched batch that held a job for its role
\* addressed to another agent, and one for another role, and touched neither.
C21_Witness ==
  /\ wk[role].pc = "next" /\ wk[role].i > Len(wk[role].msgs)
  /\ \E a, b \in 1..Len(wk[role].msgs) :
       LET ma == wk[role].msgs[a]
           mb == wk[role].msgs[b]
       IN  /\ ma.subject.tag = JobTag /\ HoldsDescriptor(ma.body)
           /\ ma.body.job.to_role = Str(role)
           /\ ma.body.job.to_agent_name = Str("Dev1Agent")
           /\ mb.subject.tag = JobTag /\ HoldsDescriptor(mb.body)
           /\ mb.body.job.to_role = Str("dev1")
  /\ Touched(role) = {}

\* The message carries exit code x as metadata: a Job in the meta of its
\* descriptor, a Done notice in its runner_exit_code line.
CarriesExitCode(m, x) ==
  IF m.subject.tag = JobTag
  THEN /\ parseJobFromBody(m.body) # {}
       /\ \A j \in parseJobFromBody(m.body) : j.meta = Num(x)
  ELSE m.body.kind = "text" /\ m.body.exit = x

\* C24 (Exit code travels downstream): every message a daemon has sent after
\* a Runner run, the dispatcher's first Job, a worker's forwarded Job and a
\* worker's Done notice, carries the exit code of that run as metadata.
C24_ExitCodeTravelsDownstream ==
  \A k \in 1..Len(mbox.sent) : CarriesExitCode(mbox.sent[k], mbox.sent[k].code)

\* C25 (Missing runner configuration is fatal at startup): a worker started
\* without a runner command or runner arguments never fetches its inbox,
\* never acknowledges a message, never handles a job and never sends a Job
\* or a Done notice.
C25_MissingRunnerFatalAtStartup ==
  ~wk[role].runner =>
     /\ wk[role].msgs = << >>
     /\ wk[role].handled = << >>
     /\ Touched(role) = {}

\* C26 (Mailbox errors inside the loop are not fatal): the worker is never
\* terminated by a mailbox call of its poll loop, the inbox fetch or the send
\* of a Job or of a Done notice.
C26_LoopMailboxErrorsNotFatal ==
  wk[role].pc = "dead" => wk[role].at \notin {"poll", "hop"}

\* C29 (Redelivery is bounded to crashes): in one run of the worker the
\* Runner is invoked at most once for each message of its inbox, whether
\* the since_ts filter of the mailbox is exclusive or inclusive and whether
\* or not the acknowledgments succeed.
C29_RunnerOncePerMessage ==
  \A a, b \in 1..Len(wk[role].runs) : wk[role].runs[a] = wk[role].runs[b] => a = b

\* C23 (Runner failure does not stop the relay): the dispatcher is never
\* terminated by its Runner invocation; when the invocation throws or
\* returns a nonzero exit code it goes on to send the first Job.
C23_RunnerFailureDoesNotStopRelay ==
  sm.pc = "dead" => sm.at # "run"

\* C27 (Single in-flight item): in one run of the dispatcher, stage one has
\* run for a later dispatch only after the Done notice that the final stage
\* produced for each earlier dispatch was fetched, older and duplicated
\* Done notices in the inbox notwithstanding.
C27_SingleInFlightItem ==
  \A k \in 1..(Len(sm.runs) - 1) : k \in sm.got

\* C30 (Done notice matching): each time the dispatcher cleared its
\* in-flight item, the Done notice that cleared it named that very item.
C30_DoneNoticeMatching ==
  \A c \in 1..Len(sm.cleared) :
     mbox.inbox[Dispatcher][sm.cleared[c].by].subject.issue = Str(sm.cleared[c].issue)

\* The messages daemon d has sent, in order.
SentBy(d) == SelectSeq(mbox.sent, LAMBDA m : m.from = d)
\* The acknowledgments worker w attempted for messages it is through with.
AcksBehind(w) ==
  IF wk[w].pc \in {"run", "hop"} THEN Len(wk[w].acks) - 1 ELSE Len(wk[w].acks)
\* Every Runner run of worker w and every clearing of the dispatcher's
\* in-flight item came after an acknowledgment attempt for the same message,
\* and after each attempt, failed as it may have, the worker ran the Runner
\* for the message and sent the next Job or the Done notice.
AckThenWork ==
  /\ \A w \in Workers :
       /\ Len(wk[w].runs) <= Len(wk[w].acks)
       /\ \A k \in 1..Len(wk[w].runs) : wk[w].runs[k] = wk[w].acks[k]
       /\ Len(wk[w].runs) >= AcksBehind(w)
       /\ Len(SentBy(w)) = AcksBehind(w)
       /\ \A k \in 1..AcksBehind(w) : SentBy(w)[k].cause = wk[w].acks[k]
  /\ Len(sm.cleared) = Len(sm.acks)
  /\ \A c \in 1..Len(sm.cleared) : sm.cleared[c].by = sm.acks[c]
\* Some daemon has used up the poll cycles of its run, or some inbox is full.
Capped ==
  \/ sm.polls >= MaxPolls
  \/ \E w \in Workers : wk[w].polls >= MaxPolls
  \/ \E d \in Daemons : Len(mbox.inbox[d]) >= MaxMsgs

\* C22 (Best-effort acknowledgment): with every acknowledgment failing, each
\* daemon attempts the acknowledgment of a message before it runs the Runner
\* for it (worker) or clears the in-flight item on it (dispatcher), a worker
\* still runs the job and sends the next Job or the Done notice, and every
\* item whose first Job was sent is eventually cleared (for an item after
\* the first: unless a daemon has used up its poll cycles).
C22_BestEffortAcknowledgment ==
  /\ [](mbox.acked = {} /\ AckThenWork)
  /\ \A k \in 1..MaxPipeItems :
       (Len(SentBy(Dispatcher)) >= k) ~> (Len(sm.cleared) >= k \/ (k > 1 /\ Capped))

\* Every worker has attempted an acknowledgment, none has succeeded, and the
\* dispatcher has cleared the item on its Done notice.
C22_Witness ==
  /\ mbox.acked = {}
  /\ \A w \in Workers : wk[w].acks # << >> /\ wk[w].handled # << >>
  /\ sm.acks # << >> /\ Len(sm.cleared) >= 1
  /\ sm.activeIssue = Null

\* The Runner runs of worker w for messages that descend from dispatch k.
RunsFor(w, k) ==
  Cardinality({h \in 1..Len(wk[w].runs) : mbox.inbox[w][wk[w].runs[h]].disp = k})

\* C28 (Four-stage pipeline order): for every dispatch of the dispatcher the
\* validator, the implementer and the reviewer run the Runner at most once
\* each and none before the stage ahead of it, a daemon has sent no more
\* messages than it has finished Runner runs, and the reviewer has sent at
\* most one Done notice.
C28_FourStagePipelineOrder ==
  /\ \A k \in 1..Len(sm.runs) :
       /\ RunsFor("sm2", k) <= 1
       /\ RunsFor("dev1", k) <= RunsFor("sm2", k)
       /\ RunsFor("dev2", k) <= RunsFor("dev1", k)
       /\ Cardinality({h \in 1..Len(mbox.sent) :
                         /\ mbox.sent[h].subject.tag = DoneTag
                         /\ mbox.sent[h].disp = k}) <= 1
  /\ Len(SentBy(Dispatcher)) <= Len(sm.runs)
  /\ \A w \in Workers :
       Len(SentBy(w)) <= Len(wk[w].runs)

\* The job names the role, the step and the agent of a next hop.
SpecifiesNextHop(job) ==
  \A f \in {job.next_role, job.next_step, job.next_agent_name} : f \notin {Null, Str("")}
\* The job names the agent to tell of its completion.
SpecifiesDoneTarget(job) == job.done_to_agent_name \notin {Null, Str("")}
\* The handlings of worker w that call for an outbound message.
Answerable(w) ==
  {h \in 1..Len(wk[w].handled) :
     LET job == JobOf(mbox.inbox[w][wk[w].handled[h]])
     IN  SpecifiesNextHop(job) \/ SpecifiesDoneTarget(job)}

MaxTs(since, ms) ==
  LET ts == {since} \cup {ms[k].created_ts : k \in 1..Len(ms)}
  IN  CHOOSE t \in ts : \A u \in ts : u <= t

\* C32 (Watermark monotonicity): in no step does the sinceTs of a worker or
\* of the dispatcher decrease, and a fetch leaves it at the greatest
\* created_ts of the messages fetched in this run, those of the new batch
\* included (unset, NoTs, while none was fetched).
C32_WatermarkMonotonicity ==
  [][/\ sm'.sinceTs >= sm.sinceTs
     /\ sm.pc = "fetch" /\ sm'.pc # "fetch" => sm'.sinceTs = MaxTs(sm.sinceTs, sm'.msgs)
     /\ \A w \in Workers :
          /\ wk'[w].sinceTs >= wk[w].sinceTs
          /\ wk[w].pc = "poll" /\ wk'[w].pc # "poll"
               => wk'[w].sinceTs = MaxTs(wk[w].sinceTs, wk'[w].msgs)]_vars

\* The implementer has fetched two messages of different created_ts in one
\* batch and its sinceTs is the later one; the dispatcher's sinceTs is set.
C32_Witness ==
  /\ wk["dev1"].pc = "next" /\ Len(wk["dev1"].msgs) = 2
  /\ wk["dev1"].msgs[1].created_ts < wk["dev1"].msgs[2].created_ts
  /\ wk["dev1"].sinceTs = wk["dev1"].msgs[2].created_ts
  /\ sm.sinceTs # NoTs

\* Worker w has not fetched its inbox; the dispatcher has neither listed the
\* backlog nor fetched its inbox.
WkNotPolled(w) ==
  wk[w].sinceTs = NoTs /\ wk[w].msgs = << >> /\ wk[w].polls = 0 /\ Touched(w) = {}
SmNotPolled ==
  /\ sm.sinceTs = NoTs /\ sm.msgs = << >> /\ sm.polls = 0
  /\ sm.activeIssue = Null /\ sm.runs = << >> /\ sm.backlog = MaxDispatch

\* C33 (Startup handshake): a daemon is past its startup only when
\* health_check, ensure_project, register_agent and its own
\* set_contact_policy have returned, in this order; until then, and when one
\* of the four has thrown, which ends the daemon, it has not polled; the
\* dispatcher goes on when a set_contact_policy for another agent throws.
C33_StartupHandshake ==
  /\ LET w == wk[role] IN
       /\ w.pc = "startup" \/ (w.pc = "dead" /\ w.at = "startup")
            => w.call <= Len(StartupCalls) /\ WkNotPolled(role)
       /\ ~(w.pc = "startup" \/ (w.pc = "dead" /\ w.at = "startup"))
            => w.call = Len(StartupCalls) + 1
  /\ sm.pc = "startup" => sm.call <= SmStartupCalls /\ SmNotPolled
  /\ sm.pc = "dead" /\ sm.at = "startup" => sm.call <= Len(StartupCalls) /\ SmNotPolled
  /\ ~(sm.pc = "startup" \/ (sm.pc = "dead" /\ sm.at = "startup"))
       => sm.call = SmStartupCalls + 1
  /\ sm.ignored => sm.call > Len(StartupCalls) + 1

\* The validator's ensure_project has thrown and ended it before any poll; a
\* set_contact_policy of the dispatcher for another agent has thrown and the
\* dispatcher has gone on to dispatch an item.
C33_Witness ==
  /\ wk[role].pc = "dead" /\ wk[role].at = "startup" /\ wk[role].call = 2
  /\ WkNotPolled(role)
  /\ sm.ignored /\ sm.runs # << >> /\ sm.pc = "fetch"

\* The journal of the store file as it was when the operation began (empty
\* when there was no file or no document in it).
PreJournal ==
  IF loc[1].pre.exists /\ loc[1].pre.form = "doc" THEN loc[1].pre.doc.journal ELSE << >>
\* The journal of the store file.
FileJournal == IF dbFile.exists /\ dbFile.form = "doc" THEN dbFile.doc.journal ELSE << >>

\* C34 (Journal is append-only): a set or an append that has returned has
\* left the journal that was there, entry for entry, and one more entry
\* after it, with its op, namespace and key; a read, a get or a list that
\* has returned has left the journal as it was; a compact that has returned
\* has left a final part of it.
C34_JournalAppendOnly ==
  /\ Returned("set") \/ Returned("append") =>
       /\ Len(FileJournal) = Len(PreJournal) + 1
       /\ SubSeq(FileJournal, 1, Len(PreJournal)) = PreJournal
       /\ LET e == FileJournal[Len(FileJournal)] IN
            e.op = op[1] /\ e.namespace = loc[1].ns /\ e.key = loc[1].key
  /\ Returned("read") \/ Returned("get") \/ Returned("list") => FileJournal = PreJournal
  /\ Returned("compact") =>
       \E n \in 0..Len(PreJournal) : FileJournal = LastN(PreJournal, n)

\* An append has returned after a set: the journal ends with the entry of
\* the set and then the entry of the append.
C34_Witness ==
  /\ Returned("append")
  /\ loc[1].prev.op = "set" /\ loc[1].prev.res = "ok"
  /\ Len(FileJournal) >= 2
  /\ FileJournal[Len(FileJournal) - 1].op = "set"
  /\ FileJournal[Len(FileJournal)].op = "append"

\* The operations that write the store file on behalf of their caller.
WritingOps == {"write", "set", "append", "compact"}
IsDocFile(f) == f.exists /\ f.form = "doc"

\* C35 (Timestamps): in a sequence of write, set, append and compact calls,
\* the document a call is about to persist carries the time at which it was
\* stamped as its updatedAt; the document a call persists is that stamped
\* document; the persisted updatedAt never decreases; and set, append and
\* compact leave the createdAt of the document in the file as it was, while
\* write keeps the createdAt of the document it was given.
C35_Timestamps ==
  [][ /\ op'[1] \in WritingOps /\ pc[1] # "wja_write" /\ pc'[1] = "wja_write" =>
           loc'[1].wdoc.updatedAt = now
      /\ op[1] \in WritingOps /\ dbFile' # dbFile =>
           /\ IsDocFile(dbFile')
           /\ dbFile'.doc.updatedAt = loc[1].wdoc.updatedAt
           /\ dbFile'.doc.updatedAt <= now
           /\ IsDocFile(dbFile) =>
                /\ dbFile'.doc.updatedAt >= dbFile.doc.updatedAt
                /\ op[1] # "write" => dbFile'.doc.createdAt = dbFile.doc.createdAt
           /\ op[1] = "write" =>
                \E d \in WriteDocs : dbFile'.doc.createdAt = d.createdAt
    ]_vars

\* A compact has returned on a document created earlier: the file carries
\* the current time as its updatedAt, later than the one it had, and the
\* createdAt it had.
C35_Witness ==
  /\ Returned("compact")
  /\ IsDocFile(loc[1].pre) /\ IsDocFile(dbFile)
  /\ dbFile.doc.updatedAt = now
  /\ dbFile.doc.updatedAt > loc[1].pre.doc.updatedAt
  /\ dbFile.doc.createdAt = loc[1].pre.doc.createdAt
  /\ dbFile.doc.createdAt < now

(***************************************************************************)
(* Two processes call set or append on the same store file, each once,     *)
(* their steps interleaved (store.js 116-161: read, modify, write).        *)
(***************************************************************************)
RaceKeys == {"1-1", "1-2"}
InitRace ==
  /\ InitCalls
  /\ lockFile = NoLockFile
  /\ dbFile \in {NoStoreFile, DocFile(DocA)}

StartRace(c) ==
  /\ nops[c] = 0
  /\ \E k \in RaceKeys :
       \/ StartSet(c, "stories", k, Str(PlainText), ObjMeta, TRUE)
       \/ StartAppend(c, "stories", k, Str(PlainText), ObjMeta, TRUE)

NextRace ==
  \/ \E c \in Procs : StartRace(c)
  \/ \E c \in Procs : RdExists(c) \/ InitCheck(c) \/ RdFile(c)
  \/ \E c \in Procs : SetApply(c) \/ AppApply(c)
  \/ \E c \in Procs : WjaWrite(c) \/ WjaMove(c) \/ SetRet(c)

SpecRace == InitRace /\ [][NextRace]_vars

\* Both calls have returned.
BothReturned ==
  \A c \in Procs : pc[c] = "done" /\ op[c] \in {"set", "append"} /\ loc[c].res = "ok"
\* The journal of the file before the first of the calls began.
JournalBefore(c) ==
  IF IsDocFile(loc[c].pre) THEN loc[c].pre.doc.journal ELSE << >>

\* C36 (Store operations are serialized): when two interleaved set or append
\* calls have both returned, the journal holds an entry for each of them
\* after the entries it had, and each call's key holds a value; calls on
\* different keys each find the value they returned under their key.
C36_StoreOperationsSerialized ==
  BothReturned =>
    /\ IsDocFile(dbFile)
    /\ Len(dbFile.doc.journal) = Min(Len(JournalBefore(1)), Len(JournalBefore(2))) + 2
    /\ \A c \in Procs :
         /\ \E i \in DOMAIN dbFile.doc.journal :
              /\ dbFile.doc.journal[i].op = op[c]
              /\ dbFile.doc.journal[i].namespace = loc[c].ns
              /\ dbFile.doc.journal[i].key = loc[c].key
         /\ loc[1].key # loc[2].key =>
              GetOwn(dbFile.doc.namespaces, loc[c].ns, loc[c].key) = loc[c].ret

\* C37 (init backs up a document that fails validation): when init() has
\* returned on a file that held valid JSON that is not a document, it
\* reports created = true, a backup of the file has been added, and the
\* file holds an empty document.
C37_InitBacksUpNonDocument ==
  Returned("init") /\ loc[1].pre.exists /\ loc[1].pre.form = "nondoc" =>
    /\ loc[1].created
    /\ backups # loc[1].prebak
    /\ IsEmptyDocFile(dbFile)

\* C38 (Land only compacts): every write of the store file by a
\* landThePlane run on a file that holds a well-formed document leaves the
\* namespaces, keys and values as they were and the journal as it was but
\* for the entries before its 5000 most recent; this holds for a run that
\* follows another run as well, so the second run changes neither.
C38_LandOnlyCompacts ==
  [][ op[1] = "land" /\ dbFile' # dbFile /\ IsDocFile(dbFile) /\ dbFile.doc.nonMaps = {} =>
        /\ IsDocFile(dbFile')
        /\ dbFile'.doc.namespaces = dbFile.doc.namespaces
        /\ dbFile'.doc.nonMaps = {}
        /\ dbFile'.doc.journal =
             LastN(dbFile.doc.journal, Min(Len(dbFile.doc.journal), LandMaxJournalEntries))
    ]_vars

\* A landThePlane run, the second operation of its process, has compacted a
\* well-formed document with a journal of three entries and written it.
C38_Witness ==
  /\ Done(1, "land") /\ loc[1].acq /\ loc[1].res = "ok"
  /\ nops[1] = 2
  /\ loc[1].steps = <<"acquire", "init", "compact", "release">>
  /\ IsDocFile(dbFile) /\ dbFile.doc = [DocC EXCEPT !.updatedAt = now]
  /\ now > 0

(***************************************************************************)
(* One worker that keeps running, with a mailbox that answers every call,  *)
(* and senders that place job messages in its inbox (worker-daemon.js      *)
(* 115-233).                                                               *)
(***************************************************************************)
\* A job for the worker that names no next hop and no completion target.
FeedJob ==
  [BaseJob EXCEPT !.next_step = Null, !.next_agent_name = Null,
                  !.done_to_agent_name = Null]
FeedInputs ==
  {[subject |-> SubjectOf(JobTag, FeedJob), body |-> JobBody(FeedJob), disp |-> 0],
   [subject |-> SubjectOf(DoneTag, FeedJob), body |-> JobBody(FeedJob), disp |-> 0]}

InitFeed ==
  /\ NoBeads
  /\ \E b \in BOOLEAN : mbox = InitMailbox(b)
  /\ wk = [w \in Workers |-> IF w = role THEN InitWorker(TRUE) ELSE NoWorker]
  /\ sm = NoDispatcher

\* A step of the worker: every call of the mailbox returns, the Runner
\* starts and exits.
FeedStep ==
  \/ WkStartup(role, TRUE) \/ WkFetch(role, TRUE) \/ WkNext(role) \/ WkAck(role, TRUE)
  \/ \E x \in {0, 1} : WkRun(role, TRUE, x)
  \/ WkHop(role, TRUE)

NextFeed ==
  \/ \E m \in FeedInputs : Deliver(role, m)
  \/ FeedStep

\* The worker is a process of its own whose loop sleeps a bounded time
\* between two polls: when it can take a step it takes one.
SpecFeed == InitFeed /\ [][NextFeed]_vars /\ WF_relayVars(FeedStep)

\* The Runner has been started for message n of the worker's inbox.
Executed(n) == \E i \in DOMAIN wk[role].runs : wk[role].runs[i] = n

\* C39 (Every job is eventually handled): every job message for the worker
\* that is in its inbox is eventually executed by the Runner, unless the
\* worker has used up the poll cycles of its run.
C39_EveryJobEventuallyHandled ==
  \A n \in 1..MaxMsgs :
    (Len(mbox.inbox[role]) >= n /\ Accepts(role, mbox.inbox[role][n]))
      ~> (Executed(n) \/ wk[role].polls >= MaxPolls)

\* Every clearing of the in-flight item so far was made by the Done notice
\* of the dispatch in flight.
ClearedByOwnDone ==
  \A c \in 1..Len(sm.cleared) : mbox.inbox[Dispatcher][sm.cleared[c].by].disp = c

\* C40 (No repeated dispatch): in one run of the dispatcher, with the
\* in-flight item cleared by its own Done notice only, no two first Jobs
\* were sent for the same work item.
C40_NoRepeatedDispatch ==
  ClearedByOwnDone =>
    \A a, b \in 1..Len(SentBy(Dispatcher)) :
       SentBy(Dispatcher)[a].subject.issue = SentBy(Dispatcher)[b].subject.issue => a = b
====
